---- MODULE Spec2Model ----
(***************************************************************************)
(* A model of the QRP pattern-card generator: the configuration codec      *)
(* (src/utils/compression.ts), the sequencer hook                          *)
(* (src/hooks/useSequencer.ts), the video export hook                      *)
(* (src/hooks/useVideoExport.ts) with the export modal                     *)
(* (src/components/SequenceManager.tsx) and the PNG metadata chunk codec   *)
(* (src/unnamed/part_003).                                                 *)
(*                                                                         *)
(* JavaScript numbers that may carry decimals (geometry fields, item ids)  *)
(* are fixed-point integers counted in units of 1/Unit; indices, lengths   *)
(* and milliseconds are plain integers.  A string of decimal digits is the *)
(* sequence of its digits.                                                 *)
(***************************************************************************)
EXTENDS Integers, Sequences, FiniteSets, TLC

VARIABLES
    \* codec: the arguments of compressConfig, the token, the decoded result
    geoIn, seqsIn, timingIn, token, decoded, cpc,
    \* chunk codec: the container, key and value handed in, what was written and read
    png,
    \* sequencer hook state (useSequencer) and the App that renders it
    sequences, activeIndex, isPlaying, timingMs, timers, timerRef, crashed,
    \* card images chosen for import whose FileReader has not fired onload yet
    readers,
    \* export hook state (useVideoExport) and the runs of exportVideo
    state, abortRef, runs,
    \* the export modal: the isOpen prop and the video the last export returned
    isOpen, exportedBlob

tokenVars == <<geoIn, seqsIn, timingIn, token, decoded, cpc>>
codecVars == <<tokenVars, png>>
seqVars == <<sequences, activeIndex, isPlaying, timingMs, timers, timerRef, crashed, readers>>
modalVars == <<isOpen, exportedBlob>>
exportVars == <<state, abortRef, runs, modalVars>>
vars == <<codecVars, seqVars, exportVars>>

(***************************************************************************)
(* JavaScript values                                                       *)
(***************************************************************************)
Unit == 10 ^ 5

Num(n) == [t |-> "num", n |-> n, s |-> ""]
IntV(k) == Num(k * Unit)
Bool(b) == [t |-> "bool", n |-> IF b THEN 1 ELSE 0, s |-> ""]
Str(s) == [t |-> "str", n |-> 0, s |-> s]
Undef == [t |-> "undef", n |-> 0, s |-> ""]
NullV == [t |-> "null", n |-> 0, s |-> ""]

Abs(n) == IF n < 0 THEN -n ELSE n

\* 2^53, the least integer x with x + 1 === x in the arithmetic of Number: it
\* is beyond the integers of the model checker and is written as the largest of
\* them; no other number above 2^53 - 1 occurs in the model
TwoTo53 == 2 * (2 ^ 30 - 1) + 1

\* A string built by a template is the sequence of its parts; "" is <<>>.
Name(s) == <<Str(s)>>

\* obj[key], undefined when the object has no such property
Get(obj, key) == IF key \in DOMAIN obj THEN obj[key] ELSE Undef

EmptyObj == [k \in {} |-> Undef]

\* { ...base, ...upd }
Spread(base, upd) ==
    [k \in DOMAIN base \cup DOMAIN upd |-> IF k \in DOMAIN upd THEN upd[k] ELSE base[k]]

(***************************************************************************)
(* compression.ts: the alias table and the baseline preset                 *)
(***************************************************************************)
GEO_KEY_MAP ==
    [ showFrame |-> "a", frameDoubleTop |-> "b", frameScale |-> "c",
      frameHeaderOffset |-> "d", frameTickLength |-> "e", frameStrokeWidth |-> "f",
      uiFontSize |-> "g", overallScale |-> "h", mainScale |-> "M", petals |-> "i",
      petalSize |-> "j", petalRoundness |-> "k", lobeCount |-> "l", lobeRadius |-> "m",
      lobeType |-> "n", lobeDesign |-> "L", designScale |-> "S", designOffset |-> "O",
      centerDesign |-> "K", lobeOpacity |-> "E", centerOpacity |-> "F",
      geometryRotation |-> "R", dharmaExtrusionOut |-> "o", dharmaExtrusionSide |-> "p",
      dharmaStemWidth |-> "q", dharmaCapHeight |-> "r", ringInnerRadius |-> "s",
      stripeSep |-> "t", stripeStart |-> "u", hullValley |-> "v", hullCoverage |-> "w",
      sequenceLength |-> "x", shellScale |-> "y", shellStroke |-> "z", ringStroke |-> "A",
      stripeStroke |-> "B", uiFont |-> "C", frameSquareHeader |-> "H" ]

GeoKeys == DOMAIN GEO_KEY_MAP

\* Members every plain object inherits; REV_GEO_KEY_MAP is a plain object, so a
\* lookup of one of these names gives the inherited member, which is truthy, and
\* using that member as a property name coerces it to the string given here.
ObjectPrototype ==
    ("constructor" :> "function Object() { [native code] }")
    @@ ("__defineGetter__" :> "function __defineGetter__() { [native code] }")
    @@ ("__defineSetter__" :> "function __defineSetter__() { [native code] }")
    @@ ("hasOwnProperty" :> "function hasOwnProperty() { [native code] }")
    @@ ("__lookupGetter__" :> "function __lookupGetter__() { [native code] }")
    @@ ("__lookupSetter__" :> "function __lookupSetter__() { [native code] }")
    @@ ("isPrototypeOf" :> "function isPrototypeOf() { [native code] }")
    @@ ("propertyIsEnumerable" :> "function propertyIsEnumerable() { [native code] }")
    @@ ("toString" :> "function toString() { [native code] }")
    @@ ("valueOf" :> "function valueOf() { [native code] }")
    @@ ("toLocaleString" :> "function toLocaleString() { [native code] }")
    @@ ("__proto__" :> "[object Object]")

\* REV_GEO_KEY_MAP[shortKey], as the property name it is then used as;
\* "" stands for undefined (no alias is the empty string)
REV_GEO_KEY_MAP(shortKey) ==
    IF \E k \in GeoKeys : GEO_KEY_MAP[k] = shortKey
    THEN CHOOSE k \in GeoKeys : GEO_KEY_MAP[k] = shortKey
    ELSE IF shortKey \in DOMAIN ObjectPrototype THEN ObjectPrototype[shortKey]
    ELSE ""

\* constants.ts is not among the sources: the baseline carries the defaults that
\* QRPGenerator declares for the same fields, and a sequence length of 10.
SUNFLOWER_PRESET ==
    [ showFrame |-> Bool(FALSE), frameDoubleTop |-> Bool(FALSE),
      frameSquareHeader |-> Bool(FALSE), frameScale |-> IntV(1),
      frameHeaderOffset |-> IntV(45), frameTickLength |-> IntV(15),
      frameStrokeWidth |-> IntV(1), uiFontSize |-> IntV(10), uiFont |-> Str("Inter"),
      overallScale |-> IntV(1), mainScale |-> IntV(1), petals |-> IntV(150),
      petalSize |-> Num(150000), petalRoundness |-> IntV(1), lobeCount |-> IntV(10),
      lobeRadius |-> IntV(36), lobeType |-> Str("sunflower"), lobeDesign |-> Str("seeds"),
      designScale |-> IntV(1), designOffset |-> IntV(0), centerDesign |-> Str("seeds"),
      lobeOpacity |-> Num(70000), centerOpacity |-> Num(10000),
      geometryRotation |-> IntV(0), dharmaExtrusionOut |-> Num(60000),
      dharmaExtrusionSide |-> Num(40000), dharmaStemWidth |-> Num(20000),
      dharmaCapHeight |-> Num(30000), ringInnerRadius |-> IntV(95), stripeSep |-> IntV(7),
      stripeStart |-> IntV(55), hullValley |-> Num(104000), hullCoverage |-> IntV(185),
      sequenceLength |-> IntV(10), shellScale |-> IntV(1), shellStroke |-> Num(80000),
      ringStroke |-> Num(80000), stripeStroke |-> IntV(2) ]

(***************************************************************************)
(* compression.ts: smartRound                                              *)
(***************************************************************************)
\* Math.round: the nearest integer, a tie going up
MathRound(n) == ((n + Unit \div 2) \div Unit) * Unit

\* A Number is a binary double with 53 significant bits.  For naturals n and d
\* the double nearest to n / d is found by long division: after the 53 bits
\* of the quotient the remainder r tells how the quotient was rounded.
RECURSIVE BitLength(_)
BitLength(q) == IF q = 0 THEN 0 ELSE 1 + BitLength(q \div 2)

\* the remainder after `bits` more quotient bits, with the last bit produced
RECURSIVE Shift(_, _, _, _)
Shift(r, d, bits, last) ==
    IF bits = 0 THEN [r |-> r, last |-> last]
    ELSE Shift((2 * r) % d, d, bits - 1, (2 * r) \div d)

\* a fraction below 1 is shifted up to its first 1 bit; z counts the shifts
RECURSIVE Lead(_, _, _)
Lead(r, d, z) == IF 2 * r >= d THEN [r |-> r, z |-> z] ELSE Lead(2 * r, d, z + 1)

\* floor(log2(n / d)) for n > 0
Exponent(n, d) == IF n >= d THEN BitLength(n \div d) - 1 ELSE 0 - (Lead(n, d, 0).z + 1)

\* the remainder of n / d after the 53 bits a double keeps
Remainder(n, d) ==
    IF n % d = 0 THEN [r |-> 0, last |-> 0]
    ELSE IF n >= d THEN Shift(n % d, d, 53 - BitLength(n \div d), (n \div d) % 2)
    ELSE Shift(Lead(n, d, 0).r, d, 53, 0)

\* whether the double nearest to n / d lies below n / d (round to nearest, a
\* tie to the even quotient)
DoubleBelow(n, d) ==
    LET f == Remainder(n, d)
    IN f.r > 0 /\ (2 * f.r < d \/ (2 * f.r = d /\ f.last = 0))

\* parseFloat(val.toFixed(3)): the multiple of 0.001 nearest to the double; the
\* double of a decimal that ends in 5 at the fourth place lies below or above
\* the tie, and a double that is the tie itself goes away from 0
ToFixed3(n) ==
    LET step == Unit \div 1000
        lo == Abs(n) \div step
        rest == Abs(n) % step
        down == 2 * rest < step \/ (2 * rest = step /\ DoubleBelow(Abs(n), Unit))
        mag == (IF down THEN lo ELSE lo + 1) * step
    IN IF n < 0 THEN -mag ELSE mag

\* 0.0001 in units of 1/Unit
NearInteger == 10

smartRoundNumber(n) ==
    IF Abs(n - MathRound(n)) < NearInteger THEN MathRound(n) ELSE ToFixed3(n)

smartRound(val) == IF val.t = "num" THEN Num(smartRoundNumber(val.n)) ELSE val

(***************************************************************************)
(* compression.ts: minifyGeoDiff, inflateGeoDiff, inflateGeoLegacy         *)
(***************************************************************************)
\* a variant that compares the values as they are, without rounding
DiffersExactly(target, baseline, key) == Get(target, key) # Get(baseline, key)

\* whether the diff of target against baseline holds the alias of key
DiffersFrom(target, baseline, key) ==
    smartRound(Get(target, key)) # smartRound(Get(baseline, key))

minifyGeoDiff(target, baseline) ==
    LET changed == {key \in GeoKeys : DiffersFrom(target, baseline, key)}
    IN [a \in {GEO_KEY_MAP[key] : key \in changed} |->
            smartRound(Get(target, REV_GEO_KEY_MAP(a)))]

\* A geometry object read from a payload: absent (undefined or null), or an object
GeoAbsent == [gt |-> "absent", o |-> EmptyObj]
GeoObj(o) == [gt |-> "obj", o |-> o]

inflateGeoDiff(minDiff, baseline) ==
    IF minDiff.gt = "absent" THEN baseline
    ELSE LET known == {sk \in DOMAIN minDiff.o : REV_GEO_KEY_MAP(sk) # ""}
             upd == [fk \in {REV_GEO_KEY_MAP(sk) : sk \in known} |->
                        minDiff.o[CHOOSE sk \in known : REV_GEO_KEY_MAP(sk) = fk]]
         IN Spread(baseline, upd)

inflateGeoLegacy(minGeo) ==
    LET keys == DOMAIN minGeo.o
        name(key) == IF REV_GEO_KEY_MAP(key) # "" THEN REV_GEO_KEY_MAP(key) ELSE key
        upd == [fk \in {name(key) : key \in keys} |->
                    minGeo.o[CHOOSE key \in keys : name(key) = fk]]
    IN Spread(SUNFLOWER_PRESET, upd)

(***************************************************************************)
(* compression.ts: tokens.  btoa/atob and the URI escaping are inverse to  *)
(* each other on every string the encoder produces, so a token is its JSON *)
(* text; enc tells whether atob and JSON.parse accept the string.          *)
(* A payload is JSON null, a JSON primitive or array (pt = "other"), or an *)
(* object with the members v, t, G, g, s.  v and t are 0 when absent.      *)
(* own lists the members that are written whatever their value: the        *)
(* encoder always writes i, n and D of an item and v and t of the payload, *)
(* so a falsy one (0, the empty string) is in the text all the same.       *)
(***************************************************************************)
SAbsent == [st |-> "absent", a |-> <<>>]
SArray(a) == [st |-> "arr", a |-> a]
SOther == [st |-> "other", a |-> <<>>]

DAbsent == [dt |-> "absent", val |-> <<>>]
DString(chars) == [dt |-> "str", val |-> chars]
DArray(a) == [dt |-> "arr", val |-> a]

\* an item of payload.s: null, or an object with the members i, n, d, D, g
\* (i is 0, n is the empty string and d is "" when absent: all of these are falsy)
ItemNull ==
    [it |-> "null", i |-> 0, n |-> <<>>, d |-> "", D |-> DAbsent, g |-> GeoAbsent, own |-> {}]
ItemObj(i, n, d, D, g) ==
    [it |-> "obj", i |-> i, n |-> n, d |-> d, D |-> D, g |-> g, own |-> {}]

PayloadObj(v, t, G, g, s) ==
    [pt |-> "obj", v |-> v, t |-> t, G |-> G, g |-> g, s |-> s, own |-> {}]
PayloadNull ==
    [pt |-> "null", v |-> 0, t |-> 0, G |-> GeoAbsent, g |-> GeoAbsent, s |-> SAbsent,
     own |-> {}]
PayloadOther ==
    [pt |-> "other", v |-> 0, t |-> 0, G |-> GeoAbsent, g |-> GeoAbsent, s |-> SAbsent,
     own |-> {}]

Token(p) == [enc |-> "ok", payload |-> p]
TokenBadBase64 == [enc |-> "badbase64", payload |-> PayloadNull]
TokenBadJson == [enc |-> "badjson", payload |-> PayloadNull]

\* JSON.stringify leaves out the members of an object whose value is undefined
JsonObject(o) == [k \in {x \in DOMAIN o : o[x] # Undef} |-> o[k]]

\* String(n) for an integer n >= 0, as its digits
RECURSIVE Digits(_)
Digits(n) == IF n < 10 THEN <<n>> ELSE Digits(n \div 10) \o <<n % 10>>

\* a variant that keeps the values apart, as a separator would
JoinApart(data) == data

\* data.join('')
RECURSIVE Join(_)
Join(data) == IF data = <<>> THEN <<>> ELSE Digits(Head(data)) \o Join(Tail(data))

(***************************************************************************)
(* compression.ts: compressConfig                                          *)
(***************************************************************************)
\* a variant that diffs every item against the preset instead of the global
\* config; the round trip tells it apart from the encoder
MinSequenceAgainstPreset(s, globalBase) ==
    LET seqDiff == minifyGeoDiff(s.geoConfig, SUNFLOWER_PRESET)
    IN [ItemObj(s.id, s.name, s.description, DString(Join(s.data)),
                IF DOMAIN seqDiff # {} THEN GeoObj(JsonObject(seqDiff)) ELSE GeoAbsent)
            EXCEPT !.own = {"i", "n", "D"}]

\* lines 122-141: one item of minSequences; seqObj is made with i, n and D
\* (lines 126-130), d is added when the description is not empty and g when
\* the diff is not
MinSequence(s, globalBase) ==
    LET seqDiff == minifyGeoDiff(s.geoConfig, globalBase)
    IN [ItemObj(s.id, s.name, s.description, DString(Join(s.data)),
                IF DOMAIN seqDiff # {} THEN GeoObj(JsonObject(seqDiff)) ELSE GeoAbsent)
            EXCEPT !.own = {"i", "n", "D"}]

\* lines 118-150: the payload is made with v, t, G and s (lines 143-148)
compressConfig(geoConfig, seqs, t) ==
    LET minGlobalGeo == minifyGeoDiff(geoConfig, SUNFLOWER_PRESET)
        minSequences == [k \in 1..Len(seqs) |-> MinSequence(seqs[k], geoConfig)]
    IN Token([PayloadObj(4, t, GeoObj(JsonObject(minGlobalGeo)), GeoAbsent,
                         SArray(minSequences))
                EXCEPT !.own = {"v", "t", "G", "s"}])

(***************************************************************************)
(* compression.ts: decompressConfig                                        *)
(***************************************************************************)
Result(geo, seqs, t) ==
    [kind |-> "result", geoConfig |-> geo, sequences |-> seqs, timingMs |-> t]
NullResult == [kind |-> "null", geoConfig |-> EmptyObj, sequences |-> <<>>, timingMs |-> 0]
Thrown == [kind |-> "throw", geoConfig |-> EmptyObj, sequences |-> <<>>, timingMs |-> 0]

\* lines 172-177 (and 194-199, 219-221): the digits of a string, or the array itself
DecodeData(D) == IF D.dt \in {"str", "arr"} THEN D.val ELSE <<>>

\* lines 179-185: rnd is what Math.random() returns for this item
DecodeSequence(s, geo, rnd) ==
    [ id |-> IF s.i # 0 THEN s.i ELSE rnd,
      name |-> IF s.n # <<>> THEN s.n ELSE Name("Sequence"),
      description |-> s.d,
      data |-> DecodeData(s.D),
      geoConfig |-> geo ]

\* reading a member of null throws a TypeError
HasNullItem(s) == \E k \in 1..Len(s.a) : s.a[k].it = "null"

\* lines 164-189
DecodeV4(p, rnd) ==
    LET globalBase == inflateGeoDiff(p.G, SUNFLOWER_PRESET)
    IN IF p.s.st # "arr" \/ HasNullItem(p.s) THEN Thrown
       ELSE Result(globalBase,
                   [k \in 1..Len(p.s.a) |->
                        DecodeSequence(p.s.a[k], inflateGeoDiff(p.s.a[k].g, globalBase),
                                       rnd[k])],
                   p.t)

\* lines 192-211
DecodeV3(p, rnd) ==
    IF HasNullItem(p.s) THEN Thrown
    ELSE LET seqs == [k \in 1..Len(p.s.a) |->
                        DecodeSequence(p.s.a[k], inflateGeoLegacy(p.s.a[k].g), rnd[k])]
         IN Result(IF Len(seqs) > 0 THEN seqs[1].geoConfig ELSE EmptyObj, seqs, p.t)

\* lines 214-233
DecodeV1(p, rnd) ==
    LET globalGeo == inflateGeoLegacy(p.g)
    IN IF p.s.st = "arr" /\ HasNullItem(p.s) THEN Thrown
       ELSE Result(globalGeo,
                   IF p.s.st = "arr"
                   THEN [k \in 1..Len(p.s.a) |->
                            DecodeSequence(p.s.a[k], globalGeo, rnd[k])]
                   ELSE <<>>,
                   p.t)

\* lines 157-235: the body of the try block
DecompressTry(tok, rnd) ==
    IF tok.enc # "ok" THEN Thrown
    ELSE LET p == tok.payload
         IN IF p.pt = "null" THEN Thrown
            ELSE IF p.pt # "obj" THEN NullResult
            ELSE IF p.v = 4 THEN DecodeV4(p, rnd)
            ELSE IF p.v \in {2, 3} /\ p.s.st = "arr" THEN DecodeV3(p, rnd)
            ELSE IF p.g.gt # "absent" THEN DecodeV1(p, rnd)
            ELSE NullResult

\* a decoder without its catch block
DecompressUncaught(tok, rnd) == DecompressTry(tok, rnd)

\* lines 155-240: try { ... } catch (e) { return null }
decompressConfig(tok, rnd) ==
    LET r == DecompressTry(tok, rnd)
    IN IF r.kind = "throw" THEN NullResult ELSE r

(***************************************************************************)
(* compression.ts line 152 and part_000 lines 42-53, 99-101, 165-176: the  *)
(* text of a token.  A token is the base64 text of the UTF-8 bytes of      *)
(* JSON.stringify(payload); handleShareUrl writes it into the query of the *)
(* URL as it is, and URLSearchParams reads every "+" of a query as a       *)
(* space.  atob drops the spaces, reads what follows the first of them out *)
(* of step, and what comes out is no JSON text.  The strings of the model  *)
(* are ASCII; a hand-made token is the text this section gives its payload.*)
(***************************************************************************)
\* the characters of the strings that tokens of the model carry
Chars ==
    (" (Copy)" :> <<32, 40, 67, 111, 112, 121, 41>>)
    @@ ("A" :> <<65>>)
    @@ ("B" :> <<66>>)
    @@ ("C" :> <<67>>)
    @@ ("Card" :> <<67, 97, 114, 100>>)
    @@ ("Card " :> <<67, 97, 114, 100, 32>>)
    @@ ("D" :> <<68>>)
    @@ ("E" :> <<69>>)
    @@ ("F" :> <<70>>)
    @@ ("G" :> <<71>>)
    @@ ("H" :> <<72>>)
    @@ ("Inter" :> <<73, 110, 116, 101, 114>>)
    @@ ("K" :> <<75>>)
    @@ ("L" :> <<76>>)
    @@ ("M" :> <<77>>)
    @@ ("New" :> <<78, 101, 119>>)
    @@ ("New sequence pattern" :> <<78, 101, 119, 32, 115, 101, 113, 117, 101, 110, 99, 101, 32, 112, 97, 116, 116, 101, 114, 110>>)
    @@ ("O" :> <<79>>)
    @@ ("Old" :> <<79, 108, 100>>)
    @@ ("R" :> <<82>>)
    @@ ("S" :> <<83>>)
    @@ ("Sequence" :> <<83, 101, 113, 117, 101, 110, 99, 101>>)
    @@ ("Twin" :> <<84, 119, 105, 110>>)
    @@ ("Void" :> <<86, 111, 105, 100>>)
    @@ ("a" :> <<97>>)
    @@ ("a~" :> <<97, 126>>)
    @@ ("b" :> <<98>>)
    @@ ("c" :> <<99>>)
    @@ ("constructor" :> <<99, 111, 110, 115, 116, 114, 117, 99, 116, 111, 114>>)
    @@ ("d" :> <<100>>)
    @@ ("e" :> <<101>>)
    @@ ("f" :> <<102>>)
    @@ ("false" :> <<102, 97, 108, 115, 101>>)
    @@ ("g" :> <<103>>)
    @@ ("h" :> <<104>>)
    @@ ("i" :> <<105>>)
    @@ ("j" :> <<106>>)
    @@ ("k" :> <<107>>)
    @@ ("l" :> <<108>>)
    @@ ("lotus" :> <<108, 111, 116, 117, 115>>)
    @@ ("m" :> <<109>>)
    @@ ("n" :> <<110>>)
    @@ ("notes" :> <<110, 111, 116, 101, 115>>)
    @@ ("null" :> <<110, 117, 108, 108>>)
    @@ ("o" :> <<111>>)
    @@ ("p" :> <<112>>)
    @@ ("q" :> <<113>>)
    @@ ("r" :> <<114>>)
    @@ ("s" :> <<115>>)
    @@ ("seeds" :> <<115, 101, 101, 100, 115>>)
    @@ ("sunflower" :> <<115, 117, 110, 102, 108, 111, 119, 101, 114>>)
    @@ ("t" :> <<116>>)
    @@ ("true" :> <<116, 114, 117, 101>>)
    @@ ("u" :> <<117>>)
    @@ ("v" :> <<118>>)
    @@ ("w" :> <<119>>)
    @@ ("x" :> <<120>>)
    @@ ("y" :> <<121>>)
    @@ ("z" :> <<122>>)
    @@ ("zz" :> <<122, 122>>)

\* the aliases in the order of GEO_KEY_MAP, in which minifyGeoDiff creates the
\* properties of a diff, followed by the other keys of hand-made tokens
KeyOrder ==
    <<"a", "b", "c", "d", "e", "f", "g", "h", "M", "i", "j", "k", "l", "m", "n", "L", "S", "O", "K", "E", "F", "R", "o", "p", "q", "r", "s", "t", "u", "v", "w", "x", "y", "z", "A", "B", "C", "H",
      "zz", "constructor">>

DigitChars(ds) == [k \in 1..Len(ds) |-> 48 + ds[k]]

\* the decimals of a fraction counted in 1/Unit, without the zeros at the end
RECURSIVE Decimals(_, _)
Decimals(frac, unit) ==
    IF frac = 0 THEN <<>>
    ELSE <<(10 * frac) \div unit>> \o Decimals((10 * frac) % unit, unit)

\* String(n) for a number counted in 1/Unit; 2^53 is written out
NumText(n) ==
    IF n = TwoTo53 THEN DigitChars(<<9, 0, 0, 7, 1, 9, 9, 2, 5, 4, 7, 4, 0, 9, 9, 2>>)
    ELSE (IF n < 0 THEN <<45>> ELSE <<>>)
         \o DigitChars(Digits(Abs(n) \div Unit))
         \o (IF Abs(n) % Unit = 0 THEN <<>>
             ELSE <<46>> \o DigitChars(Decimals(Abs(n) % Unit, Unit)))

\* JSON.stringify of a string: a quote or a backslash gets a backslash
RECURSIVE Escaped(_)
Escaped(b) ==
    IF b = <<>> THEN <<>>
    ELSE (IF Head(b) \in {34, 92} THEN <<92, Head(b)>> ELSE <<Head(b)>>) \o Escaped(Tail(b))

Quoted(b) == <<34>> \o Escaped(b) \o <<34>>

\* a name is the sequence of the parts of its template
RECURSIVE NameText(_)
NameText(parts) ==
    IF parts = <<>> THEN <<>>
    ELSE (IF Head(parts).t = "num" THEN NumText(Head(parts).n) ELSE Chars[Head(parts).s])
         \o NameText(Tail(parts))

ValueText(val) ==
    IF val.t = "num" THEN NumText(val.n)
    ELSE IF val.t = "bool" THEN (IF val.n = 1 THEN Chars["true"] ELSE Chars["false"])
    ELSE IF val.t = "str" THEN Quoted(Chars[val.s])
    ELSE Chars["null"]

RECURSIVE CommaList(_)
CommaList(texts) ==
    IF texts = <<>> THEN <<>>
    ELSE IF Len(texts) = 1 THEN texts[1]
    ELSE texts[1] \o <<44>> \o CommaList(Tail(texts))

ObjectText(members) == <<123>> \o CommaList(members) \o <<125>>
ArrayText(elements) == <<91>> \o CommaList(elements) \o <<93>>
Member(key, text) == Quoted(Chars[key]) \o <<58>> \o text

GeoText(o) ==
    LET Own(key) == key \in DOMAIN o /\ o[key] # Undef
        keys == SelectSeq(KeyOrder, Own)
    IN ObjectText([k \in 1..Len(keys) |-> Member(keys[k], ValueText(o[keys[k]]))])

\* JSON.stringify of an item.  The encoder's seqObj (lines 126-138) has i, n
\* and D whatever their value, then d and g when they are there; of an item
\* written by hand the members that are there are those with a value
ItemText(item) ==
    IF item.it = "null" THEN Chars["null"]
    ELSE ObjectText(
            (IF item.i # 0 \/ "i" \in item.own
             THEN <<Member("i", NumText(item.i))>> ELSE <<>>)
            \o (IF item.n # <<>> \/ "n" \in item.own
                THEN <<Member("n", Quoted(NameText(item.n)))>> ELSE <<>>)
            \o (IF item.D.dt = "str" THEN <<Member("D", Quoted(DigitChars(item.D.val)))>>
                ELSE IF item.D.dt = "arr"
                THEN <<Member("D", ArrayText([k \in 1..Len(item.D.val) |->
                                                 DigitChars(Digits(item.D.val[k]))]))>>
                ELSE <<>>)
            \o (IF item.d # "" THEN <<Member("d", Quoted(Chars[item.d]))>> ELSE <<>>)
            \o (IF item.g.gt = "obj" THEN <<Member("g", GeoText(item.g.o))>> ELSE <<>>))

\* lines 143-150: JSON.stringify({ v, t, G, s }), where v and t are written
\* whatever their value; of a payload written by hand the members that are
\* there are those with a value
JsonText(p) ==
    IF p.pt = "null" THEN Chars["null"]
    ELSE IF p.pt = "other" THEN ArrayText(<<>>)
    ELSE ObjectText(
            (IF p.v # 0 \/ "v" \in p.own
             THEN <<Member("v", DigitChars(Digits(p.v)))>> ELSE <<>>)
            \o (IF p.t # 0 \/ "t" \in p.own
                THEN <<Member("t", DigitChars(Digits(p.t)))>> ELSE <<>>)
            \o (IF p.G.gt = "obj" THEN <<Member("G", GeoText(p.G.o))>> ELSE <<>>)
            \o (IF p.g.gt = "obj" THEN <<Member("g", GeoText(p.g.o))>> ELSE <<>>)
            \o (IF p.s.st = "arr"
                THEN <<Member("s", ArrayText([k \in 1..Len(p.s.a) |-> ItemText(p.s.a[k])]))>>
                ELSE IF p.s.st = "other" THEN <<Member("s", ObjectText(<<>>))>>
                ELSE <<>>))

\* btoa: whether one of the 6-bit groups of the bytes is 62, the group "+"
HasPlus(b) ==
    \E k \in 1..Len(b) :
        LET next == IF k < Len(b) THEN b[k + 1] ELSE 0
        IN \/ k % 3 = 1 /\ 62 \in {b[k] \div 4, (b[k] % 4) * 16 + next \div 16}
           \/ k % 3 = 2 /\ (b[k] % 16) * 4 + next \div 64 = 62
           \/ k % 3 = 0 /\ b[k] % 64 = 62

\* a token that has lost its "+" characters
TokenSpaced == [enc |-> "spaced", payload |-> PayloadNull]

\* params.get('c') of the URL that carries the token
ParamsGet(tok) ==
    IF tok.enc = "ok" /\ HasPlus(JsonText(tok.payload)) THEN TokenSpaced ELSE tok

(***************************************************************************)
(* The inputs of the codec                                                 *)
(***************************************************************************)
\* the longest item list handed to compressConfig
MaxItems == 2

\* a data array of n zeros: new Array(n).fill(0)
Zeros(n) == [k \in 1..n |-> 0]

\* the data length a configuration asks for
LengthOf(geo) == geo.sequenceLength.n \div Unit

\* configurations inside the ranges of the tuner: the preset, a scale within
\* 0.0001 of an integer, scales with up to five decimals (0.5005 and 2.9995
\* are ties of toFixed whose doubles lie below them), other enum members
GeoVariants ==
    { EmptyObj,
      [frameScale |-> Num(100004)],
      [frameScale |-> Num(75000)],
      [frameScale |-> Num(50050), petalSize |-> Num(299950)],
      [frameScale |-> Num(112346), showFrame |-> Bool(TRUE)],
      [lobeType |-> Str("lotus"), sequenceLength |-> IntV(9)],
      [hullValley |-> Num(104040), petalSize |-> IntV(2)] }

GeoConfigs == {Spread(SUNFLOWER_PRESET, u) : u \in GeoVariants}

SomeDigits == <<0, 1, 0, 3, 9, 0, 0, 2, 0, 7>>
WithTwelve == <<0, 12, 0, 3, 0, 0, 0, 0, 0, 10>>

ItemChoices ==
    {[geo |-> c, data |-> Zeros(LengthOf(c)), description |-> ""] : c \in GeoConfigs}
    \cup {[geo |-> SUNFLOWER_PRESET, data |-> SomeDigits, description |-> "notes"],
          [geo |-> SUNFLOWER_PRESET, data |-> WithTwelve, description |-> ""],
          [geo |-> SUNFLOWER_PRESET, data |-> Zeros(10), description |-> "a~"]}

\* the collection keeps ids distinct: the k-th item has id k
ItemsOf(f) ==
    [k \in DOMAIN f |->
        [ id |-> k * Unit, name |-> Name("Card"), description |-> f[k].description,
          data |-> f[k].data, geoConfig |-> f[k].geo ]]

ItemLists == UNION {{ItemsOf(f) : f \in [1..n -> ItemChoices]} : n \in 0..MaxItems}

TimingChoices == {200, 1500}

\* geometry objects of hand-made tokens
LegacyGeo == ("c" :> Num(75000)) @@ ("n" :> Str("lotus"))
UnknownGeo == ("c" :> Num(75000)) @@ ("zz" :> IntV(7))
BareItem == ItemObj(0, <<>>, "", DAbsent, GeoAbsent)
LegacyItem == ItemObj(Unit, Name("Old"), "", DArray(<<1, 2, 3>>), GeoObj(LegacyGeo))

\* tokens that no encoder call produced: pasted URLs, older versions, damaged text
HandTokens ==
    { TokenBadBase64, TokenBadJson, Token(PayloadNull), Token(PayloadOther),
      Token(PayloadObj(4, 1500, GeoObj(EmptyObj), GeoAbsent, SAbsent)),
      Token(PayloadObj(4, 1500, GeoObj(EmptyObj), GeoAbsent, SOther)),
      Token(PayloadObj(4, 1500, GeoObj(EmptyObj), GeoAbsent, SArray(<<ItemNull>>))),
      Token(PayloadObj(4, 1500, GeoObj(EmptyObj), GeoAbsent, SArray(<<>>))),
      Token(PayloadObj(4, 0, GeoAbsent, GeoAbsent, SArray(<<BareItem, BareItem>>))),
      Token(PayloadObj(3, 200, GeoAbsent, GeoAbsent, SArray(<<LegacyItem>>))),
      Token(PayloadObj(3, 200, GeoAbsent, GeoAbsent, SArray(<<LegacyItem, ItemNull>>))),
      Token(PayloadObj(2, 200, GeoAbsent, GeoAbsent, SOther)),
      Token(PayloadObj(2, 200, GeoAbsent, GeoObj(LegacyGeo), SOther)),
      Token(PayloadObj(2, 200, GeoAbsent, GeoAbsent, SArray(<<>>))),
      Token(PayloadObj(1, 0, GeoAbsent, GeoObj(LegacyGeo), SArray(<<LegacyItem, BareItem>>))),
      Token(PayloadObj(1, 0, GeoAbsent, GeoObj(LegacyGeo), SArray(<<ItemNull>>))),
      Token(PayloadObj(0, 0, GeoAbsent, GeoObj(LegacyGeo), SAbsent)),
      Token(PayloadObj(9, 1500, GeoObj(EmptyObj), GeoAbsent, SArray(<<LegacyItem>>))),
      \* diffs that carry null: {"v":4,"G":{"c":null},"s":[{"i":1,"n":"Void","g":{"v":null}}]}
      Token(PayloadObj(4, 1500, GeoObj("c" :> NullV), GeoAbsent,
                       SArray(<<ItemObj(Unit, Name("Void"), "", DAbsent,
                                        GeoObj("v" :> NullV))>>))),
      Token(PayloadObj(1, 0, GeoAbsent, GeoObj("c" :> NullV), SAbsent)),
      \* short keys outside the alias table: "zz", and "constructor", a name
      \* every object inherits
      Token(PayloadObj(4, 1500, GeoObj(UnknownGeo), GeoAbsent,
                       SArray(<<ItemObj(Unit, Name("New"), "", DString(<<1>>),
                                        GeoObj("zz" :> IntV(8)))>>))),
      Token(PayloadObj(4, 1500, GeoObj("constructor" :> IntV(7)), GeoAbsent, SArray(<<>>))),
      Token(PayloadObj(3, 200, GeoAbsent, GeoAbsent,
                       SArray(<<ItemObj(Unit, Name("Old"), "", DAbsent, GeoObj(UnknownGeo))>>))),
      Token(PayloadObj(2, 200, GeoAbsent, GeoAbsent,
                       SArray(<<ItemObj(Unit, Name("Old"), "", DAbsent,
                                        GeoObj("constructor" :> IntV(7)))>>))),
      Token(PayloadObj(1, 0, GeoAbsent, GeoObj(UnknownGeo), SArray(<<BareItem>>))) }

\* what Math.random() may return, one draw per item
RandomDraws == {31416, 27183}

RandomChoices(tok) ==
    LET n == Len(tok.payload.s.a)
    IN IF \E k \in 1..n : tok.payload.s.a[k].i = 0
       THEN [1..n -> RandomDraws]
       ELSE {[k \in 1..n |-> 0]}

(***************************************************************************)
(* The codec as a state machine: a caller encodes its collection or is     *)
(* handed a token, and decodes the token.                                  *)
(***************************************************************************)
\* no image has been handed to the chunk codec
PngIdle ==
    [pc |-> "idle", c |-> <<>>, key |-> <<>>, value |-> <<>>,
     out |-> [t |-> "null", v |-> <<>>], readKey |-> <<>>,
     res |-> [t |-> "null", v |-> <<>>]]

CodecIdle ==
    /\ geoIn = SUNFLOWER_PRESET
    /\ seqsIn = <<>>
    /\ timingIn = 1500
    /\ token = Token(PayloadOther)
    /\ decoded = NullResult
    /\ cpc = "idle"
    /\ png = PngIdle

CodecInit ==
    /\ decoded = NullResult
    /\ png = PngIdle
    /\ \/ /\ cpc = "input"
          /\ geoIn \in GeoConfigs
          /\ seqsIn \in ItemLists
          /\ timingIn \in TimingChoices
          /\ token = Token(PayloadOther)
       \/ /\ cpc = "pasted"
          /\ geoIn = SUNFLOWER_PRESET
          /\ seqsIn = <<>>
          /\ timingIn = 1500
          /\ token \in HandTokens

Compress ==
    /\ cpc = "input"
    /\ token' = compressConfig(geoIn, seqsIn, timingIn)
    /\ cpc' = "encoded"
    /\ UNCHANGED <<geoIn, seqsIn, timingIn, decoded, png>>
    /\ UNCHANGED <<seqVars, exportVars>>

\* decompressConfig is handed the token as it was written (a card's metadata)
Decompress ==
    /\ cpc \in {"encoded", "pasted"}
    /\ \E rnd \in RandomChoices(token) : decoded' = decompressConfig(token, rnd)
    /\ cpc' = IF cpc = "encoded" THEN "decoded" ELSE "decodedPasted"
    /\ UNCHANGED <<geoIn, seqsIn, timingIn, token, png>>
    /\ UNCHANGED <<seqVars, exportVars>>

\* part_000 lines 42-53: decompressConfig is handed the parameter c of the
\* URL that carries the token
DecompressUrl ==
    /\ cpc \in {"encoded", "pasted"}
    /\ \E rnd \in RandomChoices(ParamsGet(token)) :
            decoded' = decompressConfig(ParamsGet(token), rnd)
    /\ cpc' = IF cpc = "encoded" THEN "decodedUrl" ELSE "decodedPastedUrl"
    /\ UNCHANGED <<geoIn, seqsIn, timingIn, token, png>>
    /\ UNCHANGED <<seqVars, exportVars>>

(***************************************************************************)
(* useSequencer.ts: the hook's state.  activeIndex counts from 0 as in the *)
(* source; sequences[k + 1] is the item at index k.                        *)
(***************************************************************************)
\* add, duplicate and import are offered while the collection is shorter than this
MaxSeqs == 2
\* and while the id they would allocate is at most this (in whole numbers)
MaxId == 3

\* constants.ts is not among the sources: a non-empty default collection of
\* preset cards with the ids 1, 2
DEFAULT_SEQUENCES ==
    [k \in 1..2 |->
        [ id |-> k * Unit, name |-> Name("Card"), description |-> "",
          data |-> Zeros(LengthOf(SUNFLOWER_PRESET)), geoConfig |-> SUNFLOWER_PRESET ]]

Ids(seqs) == {seqs[k].id : k \in 1..Len(seqs)}

\* sequences.filter(keep)
RECURSIVE Filter(_, _)
Filter(seqs, dropId) ==
    IF seqs = <<>> THEN <<>>
    ELSE IF Head(seqs).id # dropId THEN <<Head(seqs)>> \o Filter(Tail(seqs), dropId)
    ELSE Filter(Tail(seqs), dropId)

\* sequences.findIndex(s => s.id === id), -1 when there is none
FindIndex(seqs, id) ==
    IF id \in Ids(seqs)
    THEN (CHOOSE k \in 1..Len(seqs) :
             seqs[k].id = id /\ \A j \in 1..(k - 1) : seqs[j].id # id) - 1
    ELSE -1

\* Math.max(...sequences.map(s => s.id)) + 1, or 1 for an empty collection
NewId(seqs) ==
    IF Len(seqs) > 0
    THEN LET max == CHOOSE m \in Ids(seqs) : \A i \in Ids(seqs) : i <= m
         IN IF max = TwoTo53 THEN max ELSE max + Unit
    ELSE Unit

\* add, duplicate and import are offered within the bounds; an id that has
\* stopped growing needs no bound
Offered(seqs) ==
    Len(seqs) < MaxSeqs /\ (NewId(seqs) <= MaxId * Unit \/ NewId(seqs) = TwoTo53)

\* arr.splice(at, 1) and arr.splice(at, 0, x), at counted from 0
RemoveAt(seqs, at) == SubSeq(seqs, 1, at) \o SubSeq(seqs, at + 2, Len(seqs))
InsertAt(seqs, at, x) == SubSeq(seqs, 1, at) \o <<x>> \o SubSeq(seqs, at + 1, Len(seqs))

\* sequences[activeIndex] || sequences[0], for a non-empty collection
ActiveSequence(seqs, idx) ==
    IF idx >= 0 /\ idx < Len(seqs) THEN seqs[idx + 1] ELSE seqs[1]

(***************************************************************************)
(* useSequencer.ts lines 14-26 and the App: what a render does.  The deps  *)
(* of the animation effect are isPlaying, timingMs and sequences.length;   *)
(* when one changed, the cleanup clears the interval timerRef names and    *)
(* the effect installs a new one while playing.  An App that renders an    *)
(* empty collection throws (part_000 line 78) and React unmounts it.       *)
(***************************************************************************)
\* the handle setInterval returns: a positive integer that names no live timer;
\* of the handles a browser may give, the least that differs from the last one
FreshTimer(live, last) ==
    CHOOSE m \in 1..(Cardinality(live) + 2) :
        /\ m \notin live \cup {last}
        /\ \A i \in 1..(m - 1) : i \in live \cup {last}

\* a variant of the effect without its cleanup
RenderWithoutCleanup ==
    IF Len(sequences') = 0
    THEN /\ crashed' = TRUE
         /\ UNCHANGED <<timers, timerRef>>
    ELSE /\ crashed' = FALSE
         /\ IF <<isPlaying', timingMs', Len(sequences')>> = <<isPlaying, timingMs, Len(sequences)>>
            THEN UNCHANGED <<timers, timerRef>>
            ELSE LET fresh == FreshTimer({t.id : t \in timers}, timerRef)
                 IN IF isPlaying'
                    THEN /\ timers' = timers \cup
                                {[id |-> fresh, period |-> timingMs', len |-> Len(sequences')]}
                         /\ timerRef' = fresh
                    ELSE UNCHANGED <<timers, timerRef>>

Render ==
    IF Len(sequences') = 0
    THEN /\ crashed' = TRUE
         /\ timers' = {t \in timers : t.id # timerRef}
         /\ timerRef' = timerRef
    ELSE /\ crashed' = FALSE
         /\ IF <<isPlaying', timingMs', Len(sequences')>> = <<isPlaying, timingMs, Len(sequences)>>
            THEN UNCHANGED <<timers, timerRef>>
            ELSE LET cleaned == {t \in timers : t.id # timerRef}
                     fresh == FreshTimer({t.id : t \in cleaned}, timerRef)
                 IN IF isPlaying'
                    THEN /\ timers' = cleaned \cup
                                {[id |-> fresh, period |-> timingMs', len |-> Len(sequences')]}
                         /\ timerRef' = fresh
                    ELSE /\ timers' = cleaned
                         /\ timerRef' = timerRef

Progress(n, d) == [n |-> n, d |-> d]
Msg(text, k) == [text |-> text, k |-> k]

\* useVideoExport.ts lines 34-39, and resetState (lines 181-188)
InitialExportState ==
    [isExporting |-> FALSE, progress |-> Progress(0, 1), message |-> Msg("", 0), error |-> NullV]

\* SequenceManager.tsx lines 498-511: the effect of the export modal.  Its
\* deps are isOpen, resetState and sequences, so it runs again after a render
\* in which the modal is open and sequences is another array than before;
\* stored says whether the step handed setSequences one.  It calls resetState
\* and setExportedBlob(null); a call of exportVideo in flight goes on.
ModalEffect(stored) ==
    IF isOpen /\ stored /\ Len(sequences') > 0
    THEN /\ state' = InitialExportState
         /\ exportedBlob' = "none"
         /\ UNCHANGED <<abortRef, runs, isOpen>>
    ELSE UNCHANGED exportVars

\* a variant of the updater that stops at the last item
NextIndexStops(prev, len) == IF prev + 1 >= len THEN prev ELSE prev + 1

\* line 17: the updater the interval callback hands to setActiveIndex; len is
\* sequences.length of the render that installed the timer
NextIndex(prev, len) == (prev + 1) % len

\* lines 16-18: the interval callback of a live timer
Tick ==
    /\ ~crashed
    /\ \E t \in timers :
        /\ activeIndex' = NextIndex(activeIndex, t.len)
    /\ UNCHANGED <<sequences, isPlaying, timingMs>>
    /\ Render
    /\ UNCHANGED <<codecVars, exportVars, readers>>

\* line 173
togglePlay ==
    /\ ~crashed
    /\ isPlaying' = ~isPlaying
    /\ UNCHANGED <<sequences, activeIndex, timingMs>>
    /\ Render
    /\ UNCHANGED <<codecVars, exportVars, readers>>

\* line 174
setPlaying(playing) ==
    /\ ~crashed
    /\ isPlaying' = playing
    /\ UNCHANGED <<sequences, activeIndex, timingMs>>
    /\ Render
    /\ UNCHANGED <<codecVars, exportVars, readers>>

\* line 9: the setter of timingMs
setTimingMs(v) ==
    /\ ~crashed
    /\ timingMs' = v
    /\ UNCHANGED <<sequences, activeIndex, isPlaying>>
    /\ Render
    /\ UNCHANGED <<codecVars, exportVars, readers>>

\* a variant of selectSequence that leaves the clock alone
selectKeepsPlaying(index) ==
    /\ ~crashed
    /\ activeIndex' = index
    /\ UNCHANGED <<sequences, isPlaying, timingMs>>
    /\ Render
    /\ UNCHANGED <<codecVars, exportVars, readers>>

\* lines 176-179
selectSequence(index) ==
    /\ ~crashed
    /\ isPlaying' = FALSE
    /\ activeIndex' = index
    /\ UNCHANGED <<sequences, timingMs>>
    /\ Render
    /\ UNCHANGED <<codecVars, exportVars, readers>>

\* lines 28-30: the updater handleSequenceUpdate queues; { ...s, ...updates }
\* for every item with the id
handleSequenceUpdate(seqs, id, updates) ==
    [k \in 1..Len(seqs) |-> IF seqs[k].id = id THEN Spread(seqs[k], updates) ELSE seqs[k]]

\* lines 33-49: the updater resizeSequence queues; data.slice(0, length) counts
\* a negative length from the end
resizeSequence(seqs, id, length) ==
    [k \in 1..Len(seqs) |->
        IF seqs[k].id # id THEN seqs[k]
        ELSE IF Len(seqs[k].data) = length THEN seqs[k]
        ELSE IF Len(seqs[k].data) > length
             THEN [seqs[k] EXCEPT !.data =
                      SubSeq(@, 1, IF length >= 0 THEN length ELSE Len(@) + length)]
             ELSE [seqs[k] EXCEPT !.data = @ \o Zeros(length - Len(@))]]

\* part_000 lines 80-90: the tuner hands in a configuration for the active
\* item; both updaters run in order on the collection
handleGeoConfigChange(newConfig) ==
    /\ ~crashed
    /\ LET active == ActiveSequence(sequences, activeIndex)
           resized == IF newConfig.sequenceLength # active.geoConfig.sequenceLength
                      THEN resizeSequence(sequences, active.id, LengthOf(newConfig))
                      ELSE sequences
       IN sequences' = handleSequenceUpdate(resized, active.id, [geoConfig |-> newConfig])
    /\ UNCHANGED <<activeIndex, isPlaying, timingMs>>
    /\ Render
    /\ ModalEffect(TRUE)
    /\ UNCHANGED <<codecVars, readers>>

\* GeometryTuner.tsx lines 18-20: one control of the tuner is moved
updateConfig(upd) ==
    handleGeoConfigChange(Spread(ActiveSequence(sequences, activeIndex).geoConfig, upd))

\* part_000 lines 92-95
applyPreset(preset) ==
    handleGeoConfigChange(Spread(ActiveSequence(sequences, activeIndex).geoConfig, preset))

\* lines 52-62: every item whose data has another length is cut or padded
\* with zeros and its geoConfig.sequenceLength set; an item whose data has
\* the length already is kept as it is
setSequenceLength(length) ==
    /\ ~crashed
    /\ sequences' =
          [k \in 1..Len(sequences) |->
              LET seq == sequences[k]
                  geo == Spread(seq.geoConfig, [sequenceLength |-> IntV(length)])
              IN IF Len(seq.data) = length THEN seq
                 ELSE IF Len(seq.data) > length
                      THEN [seq EXCEPT !.geoConfig = geo, !.data =
                               SubSeq(@, 1, IF length >= 0 THEN length ELSE Len(@) + length)]
                      ELSE [seq EXCEPT !.geoConfig = geo,
                                       !.data = @ \o Zeros(length - Len(@))]]
    /\ UNCHANGED <<activeIndex, isPlaying, timingMs>>
    /\ Render
    /\ ModalEffect(TRUE)
    /\ UNCHANGED <<codecVars, readers>>

\* lines 28-30 and 189: the hook hands handleSequenceUpdate out as
\* updateSequence.  SequenceManager.tsx line 252 calls it with the name typed
\* into an item's name field, line 282 with what the editor hands to onChange.
updateSequence(id, updates) ==
    /\ ~crashed
    /\ sequences' = handleSequenceUpdate(sequences, id, updates)
    /\ UNCHANGED <<activeIndex, isPlaying, timingMs>>
    /\ Render
    /\ ModalEffect(TRUE)
    /\ UNCHANGED <<codecVars, readers>>

\* constants.ts is not among the sources: the largest value of a division,
\* one digit (SequenceEditor.tsx lines 19, 31, 78 and 167)
MAX_VALUE_PER_DIVISION == 9

\* SequenceManager.tsx lines 38 and 275-283: the item the editor shows, the
\* first one with the id of the active item; its onChange updates that id
EditorSequence ==
    sequences[FindIndex(sequences, ActiveSequence(sequences, activeIndex).id) + 1]

\* SequenceEditor.tsx lines 16-23, behind the buttons - and + of a division
\* (they hand in -1 and +1); index counts from 0.  A sum outside
\* 0..MAX_VALUE_PER_DIVISION, and the NaN of an index beyond the data, is
\* not stored.
handleValueChange(index, delta) ==
    /\ ~crashed
    /\ LET sequence == EditorSequence.data
       IN IF /\ index >= 0 /\ index < Len(sequence)
             /\ sequence[index + 1] + delta >= 0
             /\ sequence[index + 1] + delta <= MAX_VALUE_PER_DIVISION
          THEN updateSequence(EditorSequence.id,
                   [data |-> [sequence EXCEPT ![index + 1] = @ + delta]])
          ELSE UNCHANGED vars

\* the decimal digits as keys and characters
DigitOf ==
    ("0" :> 0) @@ ("1" :> 1) @@ ("2" :> 2) @@ ("3" :> 3) @@ ("4" :> 4)
    @@ ("5" :> 5) @@ ("6" :> 6) @@ ("7" :> 7) @@ ("8" :> 8) @@ ("9" :> 9)

\* the digits a string starts with
RECURSIVE LeadingDigits(_)
LeadingDigits(chars) ==
    IF chars # <<>> /\ Head(chars) \in DOMAIN DigitOf
    THEN <<DigitOf[Head(chars)]>> \o LeadingDigits(Tail(chars))
    ELSE <<>>

RECURSIVE DecimalValue(_)
DecimalValue(ds) == IF ds = <<>> THEN 0 ELSE 10 * DecimalValue(SubSeq(ds, 1, Len(ds) - 1)) + ds[Len(ds)]

\* parseInt(valStr) for a string of digits, signs, blanks and letters (no
\* prefix 0x): blanks in front are skipped, one sign is read, then the
\* digits up to the first other character; without a digit the result is NaN
RECURSIVE parseInt(_)
parseInt(chars) ==
    IF chars # <<>> /\ Head(chars) = " " THEN parseInt(Tail(chars))
    ELSE LET signed == chars # <<>> /\ Head(chars) \in {"-", "+"}
             ds == LeadingDigits(IF signed THEN Tail(chars) ELSE chars)
         IN [ nan |-> ds = <<>>,
              n |-> IF signed /\ Head(chars) = "-" THEN 0 - DecimalValue(ds)
                    ELSE DecimalValue(ds) ]

\* SequenceEditor.tsx lines 25-41: the content of a division's input field
\* has changed to valStr; an empty one and a number outside the range are
\* not stored
handleInputChange(valStr, index) ==
    /\ ~crashed
    /\ index < Len(EditorSequence.data)
    /\ LET val == parseInt(valStr)
       IN IF valStr # <<>> /\ ~val.nan /\ val.n >= 0 /\ val.n <= MAX_VALUE_PER_DIVISION
          THEN updateSequence(EditorSequence.id,
                   [data |-> [EditorSequence.data EXCEPT ![index + 1] = val.n]])
          ELSE UNCHANGED vars

\* SequenceEditor.tsx lines 47-91: a key goes down in a division's input
\* field.  The arrows move the focus, Backspace stores 0, a digit is stored;
\* any other key is left to the field.
handleKeyDown(key, index) ==
    /\ ~crashed
    /\ index < Len(EditorSequence.data)
    /\ IF key = "Backspace"
       THEN updateSequence(EditorSequence.id,
                [data |-> [EditorSequence.data EXCEPT ![index + 1] = 0]])
       ELSE IF key \notin {"ArrowRight", "ArrowLeft"} /\ key \in DOMAIN DigitOf
                 /\ DigitOf[key] <= MAX_VALUE_PER_DIVISION
            THEN updateSequence(EditorSequence.id,
                     [data |-> [EditorSequence.data EXCEPT ![index + 1] = DigitOf[key]]])
            ELSE UNCHANGED vars

\* SequenceEditor.tsx lines 93-95: the editor's Reset button
handleReset ==
    /\ ~crashed
    /\ updateSequence(EditorSequence.id, [data |-> Zeros(Len(EditorSequence.data))])

\* lines 64-86
addSequence ==
    /\ ~crashed
    /\ LET newId == NewId(sequences)
           baseConfig == ActiveSequence(sequences, activeIndex).geoConfig
           newSeq == [ id |-> newId, name |-> <<Str("Card "), Num(newId)>>, description |-> "New sequence pattern",
                       data |-> Zeros(LengthOf(baseConfig)), geoConfig |-> baseConfig ]
       IN /\ Offered(sequences)
          /\ sequences' = Append(sequences, newSeq)
          /\ activeIndex' = Len(sequences)
    /\ isPlaying' = FALSE
    /\ UNCHANGED timingMs
    /\ Render
    /\ ModalEffect(TRUE)
    /\ UNCHANGED <<codecVars, readers>>

\* lines 88-102: the state updates one importSequence call queues; seqs is the
\* collection of the render the function was created in
importSequence(seqs, importedSeq) ==
    [ sequences |-> Append(seqs, [importedSeq EXCEPT !.id = NewId(seqs)]),
      activeIndex |-> Len(seqs),
      isPlaying |-> FALSE ]

\* SequenceManager.tsx lines 185-187: decoded.sequences.forEach(onImportSequence);
\* every call runs in the same render, and a later setState replaces an earlier one
RECURSIVE ImportEach(_, _, _)
ImportEach(seqs, items, queued) ==
    IF items = <<>> THEN queued
    ELSE ImportEach(seqs, Tail(items), importSequence(seqs, Head(items)))

\* the FileReaders that may be reading at one time
MaxReads == 1

\* SequenceManager.tsx lines 173-200: a card image is chosen.  The handler
\* starts a FileReader and returns; the reader's onload keeps the
\* onImportSequence of this render and with it this render's collection.
\* meta is what readPngMetadata will give for the file.
handleFileChange(meta) ==
    /\ ~crashed
    /\ Offered(sequences)
    /\ Cardinality(readers) < MaxReads
    /\ readers' = readers \cup {[meta |-> meta, seqs |-> sequences]}
    /\ UNCHANGED <<sequences, activeIndex, isPlaying, timingMs, timers, timerRef, crashed>>
    /\ UNCHANGED <<codecVars, exportVars>>

\* SequenceManager.tsx lines 177-196: a reader fires onload.  An exception of
\* readPngMetadata leaves the handler, a missing metadata string and a token
\* without items raise an alert: the collection stays as it is.  The reader
\* fires also after the App has been unmounted; the state updates it queues
\* then change nothing.
onload(rd) ==
    /\ rd \in readers
    /\ readers' = readers \ {rd}
    /\ IF crashed
       THEN /\ UNCHANGED <<sequences, activeIndex, isPlaying, timingMs>>
            /\ UNCHANGED <<timers, timerRef, crashed>>
            /\ UNCHANGED exportVars
       ELSE \E rnd \in (IF rd.meta.t = "token" THEN RandomChoices(rd.meta.v) ELSE {<<>>}) :
            LET kept == [sequences |-> sequences, activeIndex |-> activeIndex,
                         isPlaying |-> isPlaying]
                dec == IF rd.meta.t = "token" THEN decompressConfig(rd.meta.v, rnd)
                       ELSE NullResult
                imports == dec.kind = "result" /\ Len(dec.sequences) > 0
                upd == IF imports THEN ImportEach(rd.seqs, dec.sequences, kept) ELSE kept
            IN /\ sequences' = upd.sequences
               /\ activeIndex' = upd.activeIndex
               /\ isPlaying' = upd.isPlaying
               /\ UNCHANGED timingMs
               /\ Render
               /\ ModalEffect(imports)
    /\ UNCHANGED codecVars

\* lines 104-123
duplicateSequence(id) ==
    /\ ~crashed
    /\ IF id \notin Ids(sequences)
       THEN UNCHANGED <<sequences, activeIndex, isPlaying>>
       ELSE LET sourceSeq == sequences[FindIndex(sequences, id) + 1]
                newId == NewId(sequences)
            IN /\ Offered(sequences)
               /\ sequences' = Append(sequences, [sourceSeq EXCEPT !.id = newId,
                                                !.name = Append(@, Str(" (Copy)"))])
               /\ activeIndex' = Len(sequences)
               /\ isPlaying' = FALSE
    /\ UNCHANGED timingMs
    /\ Render
    /\ ModalEffect(id \in Ids(sequences))
    /\ UNCHANGED <<codecVars, readers>>

\* a variant of deleteSequence that leaves activeIndex alone
deleteKeepsIndex(id) ==
    /\ ~crashed
    /\ IF Len(sequences) <= 1 \/ FindIndex(sequences, id) = -1
       THEN UNCHANGED <<sequences, activeIndex>>
       ELSE /\ sequences' = Filter(sequences, id)
            /\ UNCHANGED activeIndex
    /\ UNCHANGED <<isPlaying, timingMs>>
    /\ Render
    /\ ModalEffect(Len(sequences) > 1 /\ FindIndex(sequences, id) # -1)
    /\ UNCHANGED <<codecVars, readers>>

\* a variant of deleteSequence that always moves the active index one back
deleteStepsBack(id) ==
    /\ ~crashed
    /\ IF Len(sequences) <= 1 \/ FindIndex(sequences, id) = -1
       THEN UNCHANGED <<sequences, activeIndex>>
       ELSE /\ sequences' = Filter(sequences, id)
            /\ activeIndex' = IF activeIndex > 0 THEN activeIndex - 1 ELSE 0
    /\ UNCHANGED <<isPlaying, timingMs>>
    /\ Render
    /\ ModalEffect(Len(sequences) > 1 /\ FindIndex(sequences, id) # -1)
    /\ UNCHANGED <<codecVars, readers>>

\* a variant of deleteSequence that also deletes the last remaining item
deleteUnguarded(id) ==
    /\ ~crashed
    /\ IF FindIndex(sequences, id) = -1
       THEN UNCHANGED <<sequences, activeIndex>>
       ELSE LET newSequences == Filter(sequences, id)
            IN /\ sequences' = newSequences
               /\ activeIndex' =
                    IF activeIndex >= Len(newSequences)
                    THEN (IF Len(newSequences) - 1 > 0 THEN Len(newSequences) - 1 ELSE 0)
                    ELSE IF FindIndex(sequences, id) < activeIndex THEN activeIndex - 1
                    ELSE activeIndex
    /\ UNCHANGED <<isPlaying, timingMs>>
    /\ Render
    /\ ModalEffect(FindIndex(sequences, id) # -1)
    /\ UNCHANGED <<codecVars, readers>>

\* lines 125-142
deleteSequence(id) ==
    /\ ~crashed
    /\ IF Len(sequences) <= 1 \/ FindIndex(sequences, id) = -1
       THEN UNCHANGED <<sequences, activeIndex>>
       ELSE LET idxToDelete == FindIndex(sequences, id)
                newSequences == Filter(sequences, id)
            IN /\ sequences' = newSequences
               /\ activeIndex' =
                    IF activeIndex >= Len(newSequences)
                    THEN (IF Len(newSequences) - 1 > 0 THEN Len(newSequences) - 1 ELSE 0)
                    ELSE IF idxToDelete < activeIndex THEN activeIndex - 1
                    ELSE activeIndex
    /\ UNCHANGED <<isPlaying, timingMs>>
    /\ Render
    /\ ModalEffect(Len(sequences) > 1 /\ FindIndex(sequences, id) # -1)
    /\ UNCHANGED <<codecVars, readers>>

\* a variant of reorderSequences that keeps the index, not the item, active
reorderKeepsIndex(fromIndex, toIndex) ==
    /\ ~crashed
    /\ IF fromIndex = toIndex
       THEN UNCHANGED sequences
       ELSE sequences' = InsertAt(RemoveAt(sequences, fromIndex), toIndex,
                                  sequences[fromIndex + 1])
    /\ UNCHANGED <<activeIndex, isPlaying, timingMs>>
    /\ Render
    /\ ModalEffect(fromIndex # toIndex)
    /\ UNCHANGED <<codecVars, readers>>

\* lines 144-159
reorderSequences(fromIndex, toIndex) ==
    /\ ~crashed
    /\ IF fromIndex = toIndex
       THEN UNCHANGED <<sequences, activeIndex>>
       ELSE LET activeId == sequences[activeIndex + 1].id
                moved == sequences[fromIndex + 1]
                newSequences == InsertAt(RemoveAt(sequences, fromIndex), toIndex, moved)
                newActiveIndex == FindIndex(newSequences, activeId)
            IN /\ sequences' = newSequences
               /\ activeIndex' = IF newActiveIndex # -1 THEN newActiveIndex ELSE activeIndex
    /\ UNCHANGED <<isPlaying, timingMs>>
    /\ Render
    /\ ModalEffect(fromIndex # toIndex)
    /\ UNCHANGED <<codecVars, readers>>

\* lines 161-165.  DEFAULT_SEQUENCES is one array: handing it to setSequences
\* stores nothing when it is the array held already, and an array with the
\* same items need not be that one.
resetSequences ==
    /\ ~crashed
    /\ sequences' = DEFAULT_SEQUENCES
    /\ activeIndex' = 0
    /\ isPlaying' = FALSE
    /\ UNCHANGED timingMs
    /\ Render
    /\ \E stored \in {TRUE, sequences # DEFAULT_SEQUENCES} : ModalEffect(stored)
    /\ UNCHANGED <<codecVars, readers>>

\* lines 167-171
loadSequences(newSequences) ==
    /\ sequences' = newSequences
    /\ activeIndex' = 0
    /\ isPlaying' = FALSE

\* part_000 lines 42-62 and 165-183: the token in the query of the page's URL
\* or of a pasted URL; a token that decodes to null changes nothing
LoadToken(tok) ==
    /\ ~crashed
    /\ \E rnd \in RandomChoices(ParamsGet(tok)) :
        LET loaded == decompressConfig(ParamsGet(tok), rnd)
        IN IF loaded.kind = "result"
           THEN /\ loadSequences(loaded.sequences)
                /\ timingMs' = IF loaded.timingMs # 0 THEN loaded.timingMs ELSE timingMs
                /\ Render
                /\ ModalEffect(TRUE)
           ELSE /\ UNCHANGED <<sequences, activeIndex, isPlaying, timingMs>>
                /\ Render
                /\ ModalEffect(FALSE)
    /\ UNCHANGED <<codecVars, readers>>

\* part_000 lines 137-149: a pasted JSON document with a sequences member
LoadJson(doc) ==
    /\ ~crashed
    /\ loadSequences(doc.sequences)
    /\ timingMs' = IF doc.timingMs # 0 THEN doc.timingMs ELSE timingMs
    /\ Render
    /\ ModalEffect(TRUE)
    /\ UNCHANGED <<codecVars, readers>>

(***************************************************************************)
(* useVideoExport.ts: the hook's state and the calls of exportVideo.  Each *)
(* call is a run; a run stops at every await, where the awaited primitive  *)
(* completes or throws in a later step.  A run's log lists, in order, its  *)
(* progress reports, its calls on the encoding primitives with their       *)
(* completions, and the moment its abort signal is set.  Timestamps and    *)
(* durations count frameDuration (1/30 s).  canvasSource.close() is not    *)
(* awaited: it returns or throws within the step that calls it.  The runs  *)
(* of RunIds are calls of exportVideo.                                     *)
(***************************************************************************)
\* the longest scene list handed to exportVideo
MaxScenes == 2

\* timingMs values giving 0, 1, 2 and 6 frames per scene; the timing slider starts
\* at 200 ms, a URL token may carry any timing (part_000 lines 60-62)
ExportTimings == {16, 34, 67, 200}

\* the timing a caller of exportSequencesToMP4 hands in
Mp4Timings == {1500}

RunIds == {"A", "B"}
\* the call of exportSequencesToMP4 (src/unnamed/part_004)
Mp4Run == "M"
AllRuns == RunIds \cup {Mp4Run}
\* the runs of a session with one export at a time
SoloRuns == {"A"}

Ev(name, a, b) == [ev |-> name, a |-> a, b |-> b]

IdleRun ==
    [ pc |-> "idle", aborted |-> FALSE, sequences |-> <<>>, scenes |-> 0, fps |-> 0,
      sceneIndex |-> 0,
      frameInScene |-> 0, globalFrameIndex |-> 0, currentTimestamp |-> 0,
      log |-> <<>>, result |-> "none", thrown |-> NullV ]

\* what a primitive may throw: an Error with a message, or a value that is no Error
ThrownValues ==
    { [isError |-> TRUE, message |-> "encoder failure"],
      [isError |-> FALSE, message |-> "not an Error"] }

\* line 52
NoCodecMessage ==
    "No supported video codec found. Please use a modern browser with WebCodecs support."

\* a variant that gives every scene one frame more than its share
FramesPerSceneAndOne(timing) == ((timing * 30 + 500) \div 1000) + 1

\* line 89: Math.round((timingMs / 1000) * 30), for a timing in whole
\* milliseconds.  The quotient is rounded to a double and so is the product;
\* when timing * 30 / 1000 ends in .5 the product of the doubles may lie below
\* it: the quotient's error, 30 times over, exceeds half a unit in the last
\* place of the product.
FramesPerScene(timing) ==
    LET k == (3 * timing) \div 100
        f == Remainder(timing, 1000)
        ulps == 2 ^ ((BitLength(k) - 1) - Exponent(timing, 1000))
    IN IF (3 * timing) % 100 = 50 /\ DoubleBelow(timing, 1000) /\ 60 * f.r > 1000 * ulps
       THEN k
       ELSE (3 * timing + 50) \div 100

\* lines 43-45, called from a run: c is the run with the hook state it writes
updateProgress(c, progress, message) ==
    [c EXCEPT !.st.progress = progress, !.st.message = message,
              !.run.log = Append(@, Ev("progress", progress.n, progress.d))]

\* the call was made by the modal's handleStartExport, whose scene list starts
\* with the intro card (SequenceManager.tsx lines 661-670)
FromModal(run) == run.sequences # <<>> /\ "isIntro" \in DOMAIN run.sequences[1]

\* SequenceManager.tsx lines 540-581, the renderFrame the modal hands to
\* exportVideo: the intro and the outro card are drawn on the canvas, a card
\* of the collection is read from the render container (lines 944-971), which
\* is in the document only while the modal is open (line 754).  c.open is
\* isOpen at the call.
ContainerMissing(c) ==
    /\ FromModal(c.run)
    /\ ~c.open
    /\ LET scene == c.run.sequences[c.run.sceneIndex + 1]
       IN "isIntro" \notin DOMAIN scene /\ "isOutro" \notin DOMAIN scene

\* lines 136-140: report progress and call renderFrame.  The modal's
\* renderFrame throws within the call when it needs the render container and
\* finds none (SequenceManager.tsx lines 579-581): the promise it returns is
\* rejected already, and the run is at the await of a render that has failed.
BeginFrame(c) ==
    LET g == c.run.globalFrameIndex
        total == c.run.scenes * c.run.fps
        c1 == updateProgress(c, Progress(10 * total + 85 * g, total),
                             Msg("Rendering frame", g + 1))
    IN [c1 EXCEPT !.run.pc = IF ContainerMissing(c) THEN "noContainer" ELSE "render",
                  !.run.log = Append(@, Ev("render", c.run.sceneIndex, c.run.frameInScene))]

\* a variant that reports the export complete before the output is finalized
ClosingReportsComplete(c) ==
    [updateProgress(c, Progress(100, 1), Msg("Finalizing video...", 0))
        EXCEPT !.run.pc = "close"]

\* lines 149-152: after the last scene the run reports and is about to call
\* canvasSource.close()
Closing(c) ==
    [updateProgress(c, Progress(95, 1), Msg("Finalizing video...", 0))
        EXCEPT !.run.pc = "close"]

\* a variant that finalizes the output without closing the frame source
FinalizingUnclosed(c) ==
    IF c.run.pc = "close"
    THEN [c EXCEPT !.run.pc = "finalize", !.run.log = Append(@, Ev("finalize", 0, 0))]
    ELSE c

\* lines 152-153: close() has returned and finalize is called; a run that is
\* not about to close goes on as it is
Finalizing(c) ==
    IF c.run.pc = "close"
    THEN [c EXCEPT !.run.pc = "finalize",
                   !.run.log = @ \o <<Ev("close", 0, 0), Ev("finalize", 0, 0)>>]
    ELSE c

\* a variant of the scene loop that never polls the abort signal
RECURSIVE SceneLoopIgnoresAbort(_)
SceneLoopIgnoresAbort(c) ==
    IF c.run.sceneIndex < c.run.scenes
    THEN IF c.run.fps > 0
         THEN BeginFrame([c EXCEPT !.run.frameInScene = 0])
         ELSE SceneLoopIgnoresAbort([c EXCEPT !.run.sceneIndex = @ + 1])
    ELSE Closing(c)

\* lines 125-135: the head of the scene loop, up to the next await
RECURSIVE SceneLoop(_)
SceneLoop(c) ==
    IF c.run.sceneIndex < c.run.scenes
    THEN IF c.run.aborted
         THEN [c EXCEPT !.run.pc = "cancel", !.run.log = Append(@, Ev("cancel", 0, 0))]
         ELSE IF c.run.fps > 0
              THEN BeginFrame([c EXCEPT !.run.frameInScene = 0])
              ELSE SceneLoop([c EXCEPT !.run.sceneIndex = @ + 1])
    ELSE Closing(c)

\* a variant that submits every frame at the timestamp of the first
AfterAddSameTimestamp(c) ==
    LET c1 == [c EXCEPT !.run.globalFrameIndex = @ + 1,
                        !.run.frameInScene = @ + 1,
                        !.run.log = Append(@, Ev("added", c.run.globalFrameIndex, 0))]
    IN IF c1.run.frameInScene < c1.run.fps
       THEN BeginFrame(c1)
       ELSE SceneLoop([c1 EXCEPT !.run.sceneIndex = @ + 1])

\* lines 143-146 and the loop heads: after canvasSource.add has completed
AfterAdd(c) ==
    LET c1 == [c EXCEPT !.run.currentTimestamp = @ + 1,
                        !.run.globalFrameIndex = @ + 1,
                        !.run.frameInScene = @ + 1,
                        !.run.log = Append(@, Ev("added", c.run.globalFrameIndex, 0))]
    IN IF c1.run.frameInScene < c1.run.fps
       THEN BeginFrame(c1)
       ELSE SceneLoop([c1 EXCEPT !.run.sceneIndex = @ + 1])

\* a variant of the catch block that lets the exception reach the caller
CatchRethrows(c, e) ==
    [c EXCEPT !.run.pc = "done", !.run.result = "rejected",
              !.run.thrown = Str(e.message)]

\* lines 168-172: the catch block
Catch(c, e) ==
    [c EXCEPT !.st.isExporting = FALSE,
              !.st.error = Str(IF e.isError THEN e.message ELSE "Unknown error during export"),
              !.run.pc = "done", !.run.result = "null",
              !.run.thrown = Str(e.message)]

\* a run with what its next step reads and writes: the hook's state, and
\* whether the modal is open
Ctx(r) == [run |-> runs[r], st |-> state, open |-> isOpen]

Commit(r, c) ==
    /\ runs' = [runs EXCEPT ![r] = c.run]
    /\ state' = c.st

\* lines 64-94: the call, up to the await of the codec probe; scenes is the
\* list handed in as sequences, the run keeps its length as totalScenes
exportVideo(r, scenes, timing) ==
    /\ runs[r].pc = "idle"
    /\ IF Len(scenes) = 0
       THEN /\ state' = [state EXCEPT !.error = Str("No sequences to export")]
            /\ runs' = [runs EXCEPT ![r].pc = "done", ![r].result = "null"]
            /\ UNCHANGED abortRef
       ELSE /\ abortRef' = r
            /\ LET c0 == [run |-> [runs[r] EXCEPT !.sequences = scenes,
                                                  !.scenes = Len(scenes),
                                                  !.fps = FramesPerScene(timing),
                                                  !.pc = "probe"],
                          st |-> [isExporting |-> TRUE, progress |-> Progress(0, 1),
                                  message |-> Msg("Initializing...", 0), error |-> NullV]]
                   c1 == [c0 EXCEPT !.run.log = Append(@, Ev("progress", 0, 1))]
               IN Commit(r, updateProgress(c1, Progress(5, 1), Msg("Creating video encoder...", 0)))
    /\ UNCHANGED <<codecVars, seqVars, modalVars>>

\* lines 47-62 and 94-116: the probe answers; with a codec the output is started
ProbeDone(r, codec) ==
    /\ runs[r].pc = "probe"
    /\ IF codec = "none"
       THEN Commit(r, Catch(Ctx(r),
                [isError |-> TRUE, message |-> NoCodecMessage]))
       ELSE Commit(r, [Ctx(r) EXCEPT !.run.pc = "start",
                                     !.run.log = Append(@, Ev("start", 0, 0))])
    /\ UNCHANGED abortRef
    /\ UNCHANGED <<codecVars, seqVars, modalVars>>

\* lines 116-123: output.start() has completed; the run goes on to its next await
AfterStart(c) ==
    SceneLoop(updateProgress(c, Progress(10, 1), Msg("Starting frame capture...", 0)))

StartDone(r) ==
    /\ runs[r].pc = "start"
    /\ Commit(r, Finalizing(AfterStart(Ctx(r))))
    /\ UNCHANGED abortRef
    /\ UNCHANGED <<codecVars, seqVars, modalVars>>

\* lines 140-143: a renderFrame that found what it draws from has completed
\* (for a card, the image of the serialized SVG has loaded); the frame is
\* submitted
RenderDone(r) ==
    /\ runs[r].pc = "render"
    /\ Commit(r, [Ctx(r) EXCEPT !.run.pc = "add",
                                !.run.log = Append(@, Ev("add", runs[r].currentTimestamp, 1))])
    /\ UNCHANGED abortRef
    /\ UNCHANGED <<codecVars, seqVars, modalVars>>

\* line 140 for a renderFrame that found no render container
\* (SequenceManager.tsx lines 579-581): the await throws its Error into the
\* catch block
RenderThrows(r) ==
    /\ runs[r].pc = "noContainer"
    /\ Commit(r, Catch(Ctx(r), [isError |-> TRUE, message |-> "Render container not found"]))
    /\ UNCHANGED abortRef
    /\ UNCHANGED <<codecVars, seqVars, modalVars>>

\* lines 143-146: canvasSource.add has completed
AddDone(r) ==
    /\ runs[r].pc = "add"
    /\ Commit(r, Finalizing(AfterAdd(Ctx(r))))
    /\ UNCHANGED abortRef
    /\ UNCHANGED <<codecVars, seqVars, modalVars>>

\* lines 127-129: output.cancel() has completed
CancelDone(r) ==
    /\ runs[r].pc = "cancel"
    /\ state' = [state EXCEPT !.error = Str("Export cancelled")]
    /\ runs' = [runs EXCEPT ![r].pc = "done", ![r].result = "null"]
    /\ UNCHANGED abortRef
    /\ UNCHANGED <<codecVars, seqVars, modalVars>>

\* lines 153-166: output.finalize() has completed; hasBuffer is target.buffer.
\* The modal's handleStartExport, which awaits the call, keeps a video that
\* is returned (SequenceManager.tsx lines 728-730).
FinalizeDone(r, hasBuffer) ==
    /\ runs[r].pc = "finalize"
    /\ LET c1 == updateProgress([Ctx(r) EXCEPT !.run.log = Append(@, Ev("finalized", 0, 0))],
                                Progress(100, 1), Msg("Export complete!", 0))
       IN IF hasBuffer
          THEN Commit(r, [c1 EXCEPT !.st.isExporting = FALSE,
                                    !.run.pc = "done", !.run.result = "blob"])
          ELSE Commit(r, Catch(c1, [isError |-> TRUE,
                                    message |-> "Failed to create video buffer"]))
    /\ exportedBlob' = IF hasBuffer /\ FromModal(runs[r]) THEN r ELSE exportedBlob
    /\ UNCHANGED <<abortRef, isOpen>>
    /\ UNCHANGED <<codecVars, seqVars>>

\* an awaited primitive (probe, start, a renderFrame that is under way, add,
\* output.cancel, finalize) throws e; every await is inside the try block of
\* lines 85-172
Throws(r, e) ==
    /\ runs[r].pc \in {"probe", "start", "render", "add", "cancel", "finalize"}
    /\ Commit(r, Catch(Ctx(r), e))
    /\ UNCHANGED abortRef
    /\ UNCHANGED <<codecVars, seqVars, modalVars>>

\* line 152: start or add has completed, the run has reported 95 and the
\* call of canvasSource.close() throws e; finalize is not called
CloseThrows(r, e) ==
    /\ runs[r].pc \in {"start", "add"}
    /\ LET c == IF runs[r].pc = "start" THEN AfterStart(Ctx(r)) ELSE AfterAdd(Ctx(r))
       IN /\ c.run.pc = "close"
          /\ Commit(r, Catch([c EXCEPT !.run.log = Append(@, Ev("close", 0, 0))], e))
    /\ UNCHANGED abortRef
    /\ UNCHANGED <<codecVars, seqVars, modalVars>>

\* lines 175-179: abort() on a signal that is already set changes nothing
cancelExport ==
    /\ abortRef # "none"
    /\ ~runs[abortRef].aborted
    /\ runs' = [runs EXCEPT ![abortRef].aborted = TRUE,
                            ![abortRef].log = Append(@, Ev("abort", 0, 0))]
    /\ UNCHANGED <<state, abortRef>>
    /\ UNCHANGED <<codecVars, seqVars, modalVars>>

\* lines 181-188
resetState ==
    /\ state' = InitialExportState
    /\ UNCHANGED <<runs, abortRef>>
    /\ UNCHANGED <<codecVars, seqVars, modalVars>>

(***************************************************************************)
(* src/unnamed/part_004: exportSequencesToMP4, the run Mp4Run.  It takes   *)
(* its abort signal and its progress callback from the caller, shares no   *)
(* state with the hook and has no catch block: an Error it throws, and     *)
(* what an awaited primitive throws, reject the promise it returns.  It    *)
(* submits one frame per sequence; timestamps and durations count          *)
(* frameDuration (timingMs / 1000 s).  The container it appends to the     *)
(* document for a frame is empty, so no SVG is found in it and none is     *)
(* drawn (lines 216-244).                                                  *)
(***************************************************************************)
\* onProgress?.(progress, message)
onProgress(run, progress) ==
    [run EXCEPT !.log = Append(@, Ev("progress", progress.n, progress.d))]

\* a throw leaves the function: the returned promise is rejected with e
Rejects(run, e) ==
    [run EXCEPT !.pc = "done", !.result = "rejected", !.thrown = Str(e.message)]

\* lines 204-238 and 255-258: the head of the loop over the sequences, up to
\* the next await; after the last sequence the run reports 95 and is about to
\* call canvasSource.close()
Mp4Loop(run) ==
    IF run.sceneIndex < run.scenes
    THEN IF run.aborted
         THEN [run EXCEPT !.pc = "cancel", !.log = Append(@, Ev("cancel", 0, 0))]
         ELSE [onProgress(run, Progress(5 * run.scenes + 90 * run.sceneIndex, run.scenes))
                  EXCEPT !.pc = "wait"]
    ELSE [onProgress(run, Progress(95, 1)) EXCEPT !.pc = "close"]

\* lines 258-259: close() has returned and finalize is called; a run that is
\* not about to close goes on as it is
Mp4Finalizing(run) ==
    IF run.pc = "close"
    THEN [run EXCEPT !.pc = "finalize",
                     !.log = @ \o <<Ev("close", 0, 0), Ev("finalize", 0, 0)>>]
    ELSE run

\* lines 246-253: canvasSource.add has completed
Mp4AfterAdd(run) ==
    Mp4Loop([run EXCEPT !.currentTimestamp = @ + 1,
                        !.sceneIndex = @ + 1,
                        !.log = Append(@, Ev("added", run.sceneIndex, 0))])

Mp4Commit(run) ==
    /\ runs' = [runs EXCEPT ![Mp4Run] = run]
    /\ UNCHANGED <<state, abortRef>>
    /\ UNCHANGED <<codecVars, seqVars, modalVars>>

\* lines 150-174: the call, up to the await of createEncodingConfig; every
\* sequence is one scene of one frame
exportSequencesToMP4(seqs, timing) ==
    /\ runs[Mp4Run].pc = "idle"
    /\ IF Len(seqs) = 0
       THEN Mp4Commit(Rejects(runs[Mp4Run],
                              [isError |-> TRUE, message |-> "No sequences to export"]))
       ELSE Mp4Commit(onProgress([runs[Mp4Run] EXCEPT !.sequences = seqs,
                                                      !.scenes = Len(seqs),
                                                      !.fps = 1,
                                                      !.pc = "probe"],
                                 Progress(0, 1)))

\* lines 120-142 and 174-196: the probe answers; with a codec the output is
\* started
Mp4ProbeDone(codec) ==
    /\ runs[Mp4Run].pc = "probe"
    /\ IF codec = "none"
       THEN Mp4Commit(Rejects(runs[Mp4Run], [isError |-> TRUE, message |-> NoCodecMessage]))
       ELSE Mp4Commit([runs[Mp4Run] EXCEPT !.pc = "start",
                                           !.log = Append(@, Ev("start", 0, 0))])

\* lines 196-204: output.start() has completed
Mp4StartDone ==
    /\ runs[Mp4Run].pc = "start"
    /\ Mp4Commit(Mp4Finalizing(Mp4Loop(onProgress(runs[Mp4Run], Progress(5, 1)))))

\* lines 238-247: the timer of 50 ms has fired; the frame is submitted
Mp4TimerDone ==
    /\ runs[Mp4Run].pc = "wait"
    /\ Mp4Commit([runs[Mp4Run] EXCEPT
                    !.pc = "add",
                    !.log = Append(@, Ev("add", runs[Mp4Run].currentTimestamp, 1))])

\* lines 247-253 and the loop head
Mp4AddDone ==
    /\ runs[Mp4Run].pc = "add"
    /\ Mp4Commit(Mp4Finalizing(Mp4AfterAdd(runs[Mp4Run])))

\* lines 206-207: output.cancel() has completed and the Error is thrown
Mp4CancelDone ==
    /\ runs[Mp4Run].pc = "cancel"
    /\ Mp4Commit(Rejects(runs[Mp4Run], [isError |-> TRUE, message |-> "Export cancelled"]))

\* lines 259-272: output.finalize() has completed; hasBuffer is target.buffer
Mp4FinalizeDone(hasBuffer) ==
    /\ runs[Mp4Run].pc = "finalize"
    /\ LET run == onProgress([runs[Mp4Run] EXCEPT !.log = Append(@, Ev("finalized", 0, 0))],
                             Progress(100, 1))
       IN IF hasBuffer
          THEN Mp4Commit([run EXCEPT !.pc = "done", !.result = "blob"])
          ELSE Mp4Commit(Rejects(run, [isError |-> TRUE,
                                       message |-> "Failed to create video buffer"]))

\* an awaited primitive (probe, start, add, output.cancel, finalize) throws e
Mp4Throws(e) ==
    /\ runs[Mp4Run].pc \in {"probe", "start", "add", "cancel", "finalize"}
    /\ Mp4Commit(Rejects(runs[Mp4Run], e))

\* line 258: the last add has completed, the run has reported 95 and the call
\* of canvasSource.close() throws e
Mp4CloseThrows(e) ==
    /\ runs[Mp4Run].pc = "add"
    /\ LET run == Mp4AfterAdd(runs[Mp4Run])
       IN /\ run.pc = "close"
          /\ Mp4Commit(Rejects([run EXCEPT !.log = Append(@, Ev("close", 0, 0))], e))

\* the caller aborts the signal it handed in as options.signal
Mp4Abort ==
    /\ runs[Mp4Run].pc # "idle"
    /\ ~runs[Mp4Run].aborted
    /\ Mp4Commit([runs[Mp4Run] EXCEPT !.aborted = TRUE,
                                      !.log = Append(@, Ev("abort", 0, 0))])

(***************************************************************************)
(* The export modal (SequenceManager.tsx, VideoExportModal).  It reads the *)
(* collection and timingMs of the sequencer and drives the export hook.    *)
(* isOpen is a prop the parent sets (the parent is not among the sources)  *)
(* and exportedBlob the video the last export returned, named by its run;  *)
(* the modal stays mounted while it is closed.  Its display state          *)
(* (currentSequenceIndex, rotation) is written by the render callback and  *)
(* read by no export step; loopCount and videoName are the values of its   *)
(* two controls when Start is pressed.  The effect that opens the modal    *)
(* sets videoName to the first item's name and the name field overwrites   *)
(* it.                                                                     *)
(***************************************************************************)
\* upper end of the loop slider the model moves over (the slider goes to 10)
MaxLoops == 3

\* lines 672-676: the collection, loopCount times over
RECURSIVE Loops(_, _)
Loops(seqs, loopCount) ==
    IF loopCount = 0 THEN <<>> ELSE seqs \o Loops(seqs, loopCount - 1)

\* a variant of the scene list that ends with the last loop, without an outro
ExpandedWithoutOutro(seqs, loopCount, videoName) ==
    <<[seqs[1] EXCEPT !.id = (-1) * Unit, !.name = videoName] @@ [isIntro |-> TRUE]>>
    \o Loops(seqs, loopCount)

\* lines 661-684: intro card, the loops, outro card
ExpandedSequences(seqs, loopCount, videoName) ==
    <<[seqs[1] EXCEPT !.id = (-1) * Unit, !.name = videoName] @@ [isIntro |-> TRUE]>>
    \o Loops(seqs, loopCount)
    \o <<[seqs[1] EXCEPT !.id = (-2) * Unit, !.name = Name("Outro")] @@ [isOutro |-> TRUE]>>

\* line 760: the number of scenes the modal announces (intro + loops + outro)
totalFrames(seqs, loopCount) == 1 + (Len(seqs) * loopCount) + 1

\* line 761: (totalFrames * timingMs) / 1000, in seconds, as a fraction
totalDuration(seqs, loopCount, timing) ==
    [n |-> totalFrames(seqs, loopCount) * timing, d |-> 1000]

\* lines 506-509: the name the open effect takes from the first item
OpenName(seqs) == IF seqs[1].name # <<>> THEN seqs[1].name ELSE Name("QRP Sequence")

\* what the name field may hold when Start is pressed: the name the open
\* effect set, or one typed over it (line 809)
VideoNames(seqs) == {OpenName(seqs), Name("My video")}

\* lines 498-511: the parent opens the modal and the effect runs
OpenModal ==
    /\ ~crashed
    /\ ~isOpen
    /\ isOpen' = TRUE
    /\ state' = InitialExportState
    /\ exportedBlob' = "none"
    /\ UNCHANGED <<abortRef, runs>>
    /\ UNCHANGED <<codecVars, seqVars>>

\* lines 657-731, behind the Start button of lines 914-918: the button is
\* rendered while the modal is open and holds no video, and it is disabled
\* while exporting, for an empty collection and when isWebCodecsSupported()
\* (line 756; the browser has VideoEncoder and VideoDecoder) is false
handleStartExport(r, loopCount, videoName, webCodecsSupported) ==
    /\ ~crashed
    /\ isOpen
    /\ exportedBlob = "none"
    /\ ~state.isExporting
    /\ webCodecsSupported
    /\ Len(sequences) > 0
    /\ exportVideo(r, ExpandedSequences(sequences, loopCount, videoName), timingMs)

\* lines 746-752, behind the modal's Cancel and close buttons: an export in
\* progress is cancelled (useVideoExport.ts lines 175-179), then onClose()
\* has the parent close the modal
handleClose ==
    /\ ~crashed
    /\ isOpen
    /\ isOpen' = FALSE
    /\ runs' = IF state.isExporting /\ abortRef # "none" /\ ~runs[abortRef].aborted
               THEN [runs EXCEPT ![abortRef].aborted = TRUE,
                                 ![abortRef].log = Append(@, Ev("abort", 0, 0))]
               ELSE runs
    /\ UNCHANGED <<state, abortRef, exportedBlob>>
    /\ UNCHANGED <<codecVars, seqVars>>

(***************************************************************************)
(* The PNG metadata chunk codec (src/unnamed/part_003).  A buffer is the   *)
(* sequence of its bytes, a string the sequence of its UTF-16 code units;  *)
(* offsets count from 0 as in the source.  A 32-bit word is kept as its    *)
(* two 16-bit halves.  String.fromCharCode(...bytes) gives the string      *)
(* whose code units are the bytes.                                         *)
(***************************************************************************)
\* bitwise exclusive or of two naturals
RECURSIVE Xor(_, _)
Xor(a, b) ==
    IF a = 0 THEN b
    ELSE IF b = 0 THEN a
    ELSE ((a + b) % 2) + 2 * Xor(a \div 2, b \div 2)

Word(hi, lo) == [hi |-> hi, lo |-> lo]
Xor32(v, w) == Word(Xor(v.hi, w.hi), Xor(v.lo, w.lo))
\* w >>> k, for k below 16
ShiftRight(w, k) ==
    Word(w.hi \div (2 ^ k), (w.lo \div (2 ^ k)) + (w.hi % (2 ^ k)) * (2 ^ (16 - k)))

\* lines 2-9; 0xEDB88320 is the word (0xEDB8, 0x8320)
RECURSIVE TableEntry(_, _)
TableEntry(c, k) ==
    IF k = 0 THEN c
    ELSE TableEntry(IF c.lo % 2 = 1 THEN Xor32(Word(60856, 33568), ShiftRight(c, 1))
                    ELSE ShiftRight(c, 1), k - 1)

crcTable == [i \in 0..255 |-> TableEntry(Word(0, i), 8)]

\* lines 13-15: one pass of the loop per byte; the singleton set holds the
\* value of crc after the pass
RECURSIVE CrcLoop(_, _)
CrcLoop(crc, buf) ==
    IF buf = <<>> THEN crc
    ELSE LET next == {Xor32(ShiftRight(crc, 8), crcTable[Xor(crc.lo % 256, Head(buf))])}
         IN CHOOSE r \in {CrcLoop(c, Tail(buf)) : c \in next} : TRUE

\* lines 11-17
crc32(buf) == Xor32(CrcLoop(Word(65535, 65535), buf), Word(65535, 65535))

\* lines 19-25: a Uint8Array keeps the low 8 bits of every code unit
stringToUint8(str) == [i \in 1..Len(str) |-> str[i] % 256]

\* DataView.setUint32(_, w, false): the four bytes of a word, big endian
BigEndian(w) == <<w.hi \div 256, w.hi % 256, w.lo \div 256, w.lo % 256>>

\* TypedArray.subarray(begin, end): the bytes at offsets begin..end-1, clamped
subarray(arr, begin, end) ==
    LET b == IF begin > Len(arr) THEN Len(arr) ELSE begin
        e == IF end > Len(arr) THEN Len(arr) ELSE end
    IN IF e <= b THEN <<>> ELSE SubSeq(arr, b + 1, e)

tEXt == <<116, 69, 88, 116>>
IEND == <<73, 69, 78, 68>>

\* line 64
insertPos == 33

\* what a call gives: a Blob or a string (t says which, v holds it), null, or
\* a RangeError thrown
PngValue(t, v) == [t |-> t, v |-> v]
PngNull == PngValue("null", <<>>)
RangeError == PngValue("throw", <<>>)

\* lines 39-58: length, type, data, checksum over type and data
FullChunk(type, chunkData) ==
    BigEndian(Word(Len(chunkData) \div 65536, Len(chunkData) % 65536))
    \o type \o chunkData \o BigEndian(crc32(type \o chunkData))

\* a variant that appends the chunk to the end of the image
writeAtEnd(uint8, key, value) ==
    PngValue("blob", uint8 \o FullChunk(tEXt, stringToUint8(key) \o <<0>> \o stringToUint8(value)))

\* lines 28-72; newPng.set(fullChunk, insertPos) is out of bounds for an image
\* shorter than insertPos
writePngMetadata(uint8, key, value) ==
    LET chunkData == stringToUint8(key) \o <<0>> \o stringToUint8(value)
        fullChunk == FullChunk(tEXt, chunkData)
    IN IF insertPos + Len(fullChunk) > Len(uint8) + Len(fullChunk)
       THEN RangeError
       ELSE PngValue("blob", subarray(uint8, 0, insertPos) \o fullChunk
                    \o subarray(uint8, insertPos, Len(uint8)))

\* DataView.getUint32(offset, false) where four bytes are there; a length of
\* 2^30 or more, beyond every buffer, is read as 2^30
getUint32(data, offset) ==
    IF data[offset + 1] >= 64 THEN 2 ^ 30
    ELSE ((data[offset + 1] * 256 + data[offset + 2]) * 256 + data[offset + 3]) * 256
         + data[offset + 4]

\* a variant that splits the chunk body at its last 0x00
lastNullIndexOf(chunkContent) ==
    IF \E i \in 1..Len(chunkContent) : chunkContent[i] = 0
    THEN (CHOOSE i \in 1..Len(chunkContent) :
            /\ chunkContent[i] = 0
            /\ \A j \in (i + 1)..Len(chunkContent) : chunkContent[j] # 0) - 1
    ELSE -1

\* lines 88-94
nullIndexOf(chunkContent) ==
    IF \E i \in 1..Len(chunkContent) : chunkContent[i] = 0
    THEN (CHOOSE i \in 1..Len(chunkContent) :
            /\ chunkContent[i] = 0
            /\ \A j \in 1..(i - 1) : chunkContent[j] # 0) - 1
    ELSE -1

\* lines 80-110: the chunk walk from offset; getUint32 throws a RangeError when
\* fewer than four bytes follow the offset
RECURSIVE ReadChunks(_, _, _)
ReadChunks(data, key, offset) ==
    IF ~(offset < Len(data)) THEN PngNull
    ELSE IF offset + 4 > Len(data) THEN RangeError
    ELSE LET length == getUint32(data, offset)
             type == subarray(data, offset + 4, offset + 8)
             chunkContent == subarray(data, offset + 8, offset + 8 + length)
             nullIndex == nullIndexOf(chunkContent)
         IN IF /\ type = tEXt
               /\ nullIndex # -1
               /\ subarray(chunkContent, 0, nullIndex) = key
            THEN PngValue("str", subarray(chunkContent, nullIndex + 1, Len(chunkContent)))
            ELSE IF type = IEND THEN PngNull
            ELSE ReadChunks(data, key, offset + 12 + length)

\* lines 74-111
readPngMetadata(data, key) == ReadChunks(data, key, 8)

\* the images handed to the codec: the signature and a 25-byte header chunk
\* alone, with a terminal chunk, with image data, with a textual chunk
Minimal ==
    <<137, 80, 78, 71, 13, 10, 26, 10>>
    \o FullChunk(<<73, 72, 68, 82>>, <<0, 0, 0, 1, 0, 0, 0, 1, 8, 6, 0, 0, 0>>)
Tagged == Minimal \o FullChunk(tEXt, <<75, 0, 104>>) \o FullChunk(IEND, <<>>)

\* Tagged cut off after any number of bytes, and a chunk that announces more
\* bytes than the buffer holds
Damaged ==
    {SubSeq(Tagged, 1, n) : n \in 0..(Len(Tagged) - 1)}
    \cup {Minimal \o <<255, 255, 255, 255>> \o <<73, 68, 65, 84>> \o <<1, 2>>,
          Minimal \o <<0, 0, 0, 9>> \o tEXt \o <<75, 0, 104>>}

WellFormed ==
    {Minimal, Minimal \o FullChunk(IEND, <<>>), Tagged,
     Minimal \o FullChunk(<<73, 68, 65, 84>>, <<1, 2>>) \o FullChunk(IEND, <<>>)}

\* "K", "Ke", the empty string, a key with a code unit above 255
Keys == {<<75>>, <<75, 101>>, <<>>, <<331>>}
\* "hi", the empty string, a value with 0x00 and 0xFF, one with a code unit above 255
Values == {<<104, 105>>, <<>>, <<0, 255>>, <<331, 104>>}

\* SequenceManager.tsx line 144: the image is tagged
WriteMetadata ==
    /\ png.pc = "input"
    /\ png' = [png EXCEPT !.pc = "written", !.out = writePngMetadata(png.c, png.key, png.value)]
    /\ UNCHANGED tokenVars
    /\ UNCHANGED <<seqVars, exportVars>>

\* SequenceManager.tsx line 180: an image is read, as handed in or as tagged
ReadMetadata(key) ==
    /\ \/ png.pc = "input" /\ png' = [png EXCEPT !.pc = "read", !.readKey = key,
                                                  !.res = readPngMetadata(png.c, key)]
       \/ /\ png.pc = "written" /\ png.out.t = "blob"
          /\ png' = [png EXCEPT !.pc = "readBack", !.readKey = key,
                                !.res = readPngMetadata(png.out.v, key)]
    /\ UNCHANGED tokenVars
    /\ UNCHANGED <<seqVars, exportVars>>

(***************************************************************************)
(* The machines.  Each specification runs one of them and leaves the       *)
(* state of the others at rest.                                            *)
(***************************************************************************)
\* a card as the tuner leaves it
Card(id, geo) ==
    [ id |-> id * Unit, name |-> Name("Card"), description |-> "",
      data |-> Zeros(LengthOf(geo)), geoConfig |-> geo ]

LotusConfig == Spread(SUNFLOWER_PRESET, [lobeType |-> Str("lotus"), sequenceLength |-> IntV(9)])

\* the scene lists handed to exportVideo directly: k cards
SceneList(k) == [i \in 1..k |-> Card(i, IF i % 2 = 1 THEN SUNFLOWER_PRESET ELSE LotusConfig)]

\* tokens a URL or a pasted URL may carry: a shared collection, a card whose
\* name makes a "+" in the token, an item list that is empty, items sharing an
\* id, a damaged token
LoadTokens ==
    { compressConfig(SUNFLOWER_PRESET, <<Card(1, SUNFLOWER_PRESET), Card(2, LotusConfig),
                                         Card(3, SUNFLOWER_PRESET)>>, 200),
      compressConfig(SUNFLOWER_PRESET,
                     <<[Card(1, SUNFLOWER_PRESET) EXCEPT !.name = Name("a~")]>>, 1500),
      Token(PayloadObj(4, 1500, GeoObj(EmptyObj), GeoAbsent, SArray(<<>>))),
      Token(PayloadObj(4, 0, GeoAbsent, GeoAbsent,
                       SArray(<<ItemObj(Unit, Name("Twin"), "", DAbsent, GeoAbsent),
                                ItemObj(Unit, Name("Twin"), "", DAbsent, GeoAbsent)>>))),
      TokenBadJson }

\* JSON documents with a sequences member
JsonDocs ==
    { [sequences |-> <<>>, timingMs |-> 0],
      [sequences |-> <<Card(1, LotusConfig)>>, timingMs |-> 200] }

\* tokens read from the metadata of a card image
ImportTokens ==
    { compressConfig(LotusConfig, <<Card(1, LotusConfig)>>, 1500),
      compressConfig(SUNFLOWER_PRESET, <<Card(1, SUNFLOWER_PRESET), Card(2, LotusConfig)>>, 1500),
      Token(PayloadObj(4, 1500, GeoObj(EmptyObj), GeoAbsent, SArray(<<>>))),
      TokenBadBase64 }

\* what readPngMetadata(buffer, "QRPConfig") gives for the files chosen: the
\* metadata string (a token of the codec, kept as the token), null for an image
\* without the key, a RangeError for an image cut short
ImportFiles == {PngValue("token", tok) : tok \in ImportTokens} \cup {PngNull, RangeError}

\* useSequencer.ts lines 6-11
SeqIdle ==
    /\ sequences = DEFAULT_SEQUENCES
    /\ activeIndex = 0
    /\ isPlaying = FALSE
    /\ timingMs = 1500
    /\ timers = {}
    /\ timerRef = 0
    /\ crashed = FALSE
    /\ readers = {}

\* useVideoExport.ts lines 34-41
ExportIdle ==
    /\ state = InitialExportState
    /\ abortRef = "none"
    /\ runs = [r \in AllRuns |-> IdleRun]
    /\ isOpen = FALSE
    /\ exportedBlob = "none"

CodecNext ==
    \/ Compress
    \/ Decompress
    \/ DecompressUrl

\* the clock, the selection and the operations on the collection; the
\* operations on the items' data, names and geometry are those of GeoNext
SeqNext ==
    \/ Tick
    \/ togglePlay
    \/ \E playing \in BOOLEAN : setPlaying(playing)
    \/ \E v \in TimingChoices : setTimingMs(v)
    \/ \E index \in 0..(Len(sequences) - 1) : selectSequence(index)
    \/ addSequence
    \/ \E meta \in ImportFiles : handleFileChange(meta)
    \/ \E rd \in readers : onload(rd)
    \/ \E id \in Ids(sequences) : duplicateSequence(id)
    \/ \E id \in Ids(sequences) : deleteSequence(id)
    \/ \E fromIndex, toIndex \in 0..(Len(sequences) - 1) :
           reorderSequences(fromIndex, toIndex)
    \/ resetSequences
    \/ \E tok \in LoadTokens : LoadToken(tok)
    \/ \E doc \in JsonDocs : LoadJson(doc)

ExportNext ==
    \/ \E r \in SoloRuns, k \in 0..MaxScenes, timing \in ExportTimings :
           exportVideo(r, SceneList(k), timing)
    \/ \E r \in SoloRuns, codec \in {"avc", "none"} : ProbeDone(r, codec)
    \/ \E r \in SoloRuns : StartDone(r)
    \/ \E r \in SoloRuns : RenderDone(r)
    \/ \E r \in SoloRuns : AddDone(r)
    \/ \E r \in SoloRuns : CancelDone(r)
    \/ \E r \in SoloRuns, hasBuffer \in BOOLEAN : FinalizeDone(r, hasBuffer)
    \/ \E r \in SoloRuns, e \in ThrownValues : Throws(r, e)
    \/ \E r \in SoloRuns, e \in ThrownValues : CloseThrows(r, e)
    \/ cancelExport
    \/ resetState

\* a call of exportSequencesToMP4
Mp4Next ==
    \/ \E k \in 0..MaxScenes, timing \in Mp4Timings : exportSequencesToMP4(SceneList(k), timing)
    \/ \E codec \in {"avc", "none"} : Mp4ProbeDone(codec)
    \/ Mp4StartDone
    \/ Mp4TimerDone
    \/ Mp4AddDone
    \/ Mp4CancelDone
    \/ \E hasBuffer \in BOOLEAN : Mp4FinalizeDone(hasBuffer)
    \/ \E e \in ThrownValues : Mp4Throws(e)
    \/ \E e \in ThrownValues : Mp4CloseThrows(e)
    \/ Mp4Abort

\* the two pipelines, each with its own caller
PipelinesNext == ExportNext \/ Mp4Next

\* the modal over a collection and a timing loaded from a shared URL
\* (part_000 lines 55-62): one to MaxSeqs cards
ModalInit ==
    /\ CodecIdle
    /\ ExportIdle
    /\ \E n \in 1..MaxSeqs : sequences = SceneList(n)
    /\ timingMs \in ExportTimings
    /\ activeIndex = 0
    /\ isPlaying = FALSE
    /\ timers = {}
    /\ timerRef = 0
    /\ crashed = FALSE
    /\ readers = {}

ModalNext ==
    \/ OpenModal
    \/ \E r \in SoloRuns, loopCount \in 1..MaxLoops, videoName \in VideoNames(sequences),
          webCodecsSupported \in BOOLEAN :
           handleStartExport(r, loopCount, videoName, webCodecsSupported)
    \/ \E r \in SoloRuns, codec \in {"avc", "none"} : ProbeDone(r, codec)
    \/ \E r \in SoloRuns : StartDone(r)
    \/ \E r \in SoloRuns : RenderDone(r)
    \/ \E r \in SoloRuns : RenderThrows(r)
    \/ \E r \in SoloRuns : AddDone(r)
    \/ \E r \in SoloRuns : CancelDone(r)
    \/ \E r \in SoloRuns, hasBuffer \in BOOLEAN : FinalizeDone(r, hasBuffer)
    \/ \E r \in SoloRuns, e \in ThrownValues : Throws(r, e)
    \/ \E r \in SoloRuns, e \in ThrownValues : CloseThrows(r, e)
    \/ handleClose

\* the collections and timings of the exports that run to their end: one
\* card at 2000 ms, two cards at 1500 ms, and one card at 2050 ms, where
\* (timingMs / 1000) * 30 is a double just below 61.5
FramesStarts == {<<SceneList(1), 2000>>, <<SceneList(2), 1500>>, <<SceneList(1), 2050>>}

FramesInit ==
    /\ CodecIdle
    /\ ExportIdle
    /\ \E st \in FramesStarts : sequences = st[1] /\ timingMs = st[2]
    /\ activeIndex = 0
    /\ isPlaying = FALSE
    /\ timers = {}
    /\ timerRef = 0
    /\ crashed = FALSE
    /\ readers = {}

\* the modal once opened, while no primitive throws
FramesNext ==
    \/ OpenModal
    \/ \E r \in SoloRuns, loopCount \in 1..MaxLoops, videoName \in VideoNames(sequences),
          webCodecsSupported \in BOOLEAN :
           handleStartExport(r, loopCount, videoName, webCodecsSupported)
    \/ \E r \in SoloRuns, codec \in {"avc", "none"} : ProbeDone(r, codec)
    \/ \E r \in SoloRuns : StartDone(r)
    \/ \E r \in SoloRuns : RenderDone(r)
    \/ \E r \in SoloRuns : AddDone(r)
    \/ \E r \in SoloRuns, hasBuffer \in BOOLEAN : FinalizeDone(r, hasBuffer)

\* collections with pairwise distinct ids, as the App holds after a load: the
\* default one, a single card, two cards with the larger id first, a card
\* whose token carried no id next to one that did (compression.ts line 180), a
\* card whose token carried the id 2^53
StartCollections ==
    { DEFAULT_SEQUENCES,
      <<Card(2, LotusConfig)>>,
      <<Card(2, SUNFLOWER_PRESET), Card(1, LotusConfig)>>,
      <<Card(1, SUNFLOWER_PRESET), [Card(0, LotusConfig) EXCEPT !.id = 31416]>>,
      <<[Card(1, SUNFLOWER_PRESET) EXCEPT !.id = TwoTo53]>> }

IdsInit ==
    /\ CodecIdle
    /\ ExportIdle
    /\ sequences \in StartCollections
    /\ activeIndex \in 0..(Len(sequences) - 1)
    /\ isPlaying = FALSE
    /\ timingMs = 1500
    /\ timers = {}
    /\ timerRef = 0
    /\ crashed = FALSE
    /\ readers = {}

\* the operations that create, remove and move items
IdsNext ==
    \/ addSequence
    \/ \E meta \in ImportFiles : handleFileChange(meta)
    \/ \E rd \in readers : onload(rd)
    \/ \E id \in Ids(sequences) : duplicateSequence(id)
    \/ \E id \in Ids(sequences) : deleteSequence(id)
    \/ \E fromIndex, toIndex \in 0..(Len(sequences) - 1) :
           reorderSequences(fromIndex, toIndex)

\* what the tuner's length buttons hand in (part_002 lines 349-351); 10 is the
\* length of the presets
TunerUpdates ==
    { [sequenceLength |-> IntV(9)], [sequenceLength |-> IntV(44)] }

\* what setSequenceLength is handed
Lengths == {9}

\* the buttons - and + are pressed where the sum is one of these: at the two
\* ends of the range and one step inside its upper end
ButtonSums == {-1, 8, 9, 10}

AtRangeEnd(index, delta) ==
    /\ ~crashed
    /\ index < Len(EditorSequence.data)
    /\ EditorSequence.data[index + 1] + delta \in ButtonSums

\* what a division's input field may hold after a change: a digit, two
\* digits, nothing
FieldTexts == {<<"8">>, <<"3", "8">>, <<>>}

\* the keys pressed in a division's input field
EditorKeys == {"8", "Backspace", "ArrowRight", "a"}

\* what is typed into the name field of the first item: the name of the
\* preset cards, which not every loaded card has
TypedName == Name("Card")

\* the operations on the geometry, the data and the names of the items
GeoNext ==
    \/ \E upd \in TunerUpdates : updateConfig(upd)
    \/ \E preset \in {SUNFLOWER_PRESET, LotusConfig} : applyPreset(preset)
    \/ \E length \in Lengths : setSequenceLength(length)
    \/ \E delta \in {-1, 1} : AtRangeEnd(0, delta) /\ handleValueChange(0, delta)
    \/ \E valStr \in FieldTexts : handleInputChange(valStr, 0)
    \/ \E key \in EditorKeys : handleKeyDown(key, 0)
    \/ handleReset
    \/ updateSequence(sequences[1].id, [name |-> TypedName])
    \/ addSequence
    \/ \E id \in Ids(sequences) : duplicateSequence(id)
    \/ \E meta \in ImportFiles : handleFileChange(meta)
    \/ \E rd \in readers : onload(rd)
    \/ \E tok \in LoadTokens : LoadToken(tok)
    \/ \E doc \in JsonDocs : LoadJson(doc)

\* the modal over one card at one frame per scene
OverlapInit ==
    /\ CodecIdle
    /\ ExportIdle
    /\ sequences = SceneList(1)
    /\ timingMs = 34
    /\ activeIndex = 0
    /\ isPlaying = FALSE
    /\ timers = {}
    /\ timerRef = 0
    /\ crashed = FALSE
    /\ readers = {}

\* the modal is closed and opened again, and the card is renamed, while a
\* call of exportVideo is in flight; a second call, B, is made after the
\* first, A
OverlapNext ==
    \/ OpenModal
    \/ updateSequence(sequences[1].id, [name |-> Name("Renamed")])
    \/ \E videoName \in VideoNames(sequences) : handleStartExport("A", 1, videoName, TRUE)
    \/ /\ runs["A"].pc # "idle"
       /\ \E videoName \in VideoNames(sequences) :
              handleStartExport("B", 1, videoName, TRUE)
    \/ \E r \in RunIds : ProbeDone(r, "avc")
    \/ \E r \in RunIds : StartDone(r)
    \/ \E r \in RunIds : RenderDone(r)
    \/ \E r \in RunIds : RenderThrows(r)
    \/ \E r \in RunIds : AddDone(r)
    \/ \E r \in RunIds : CancelDone(r)
    \/ \E r \in RunIds : FinalizeDone(r, TRUE)
    \/ handleClose

\* an image, a key and a value are handed in; the hooks are at rest
PngInit ==
    /\ SeqIdle
    /\ ExportIdle
    /\ geoIn = SUNFLOWER_PRESET
    /\ seqsIn = <<>>
    /\ timingIn = 1500
    /\ token = Token(PayloadOther)
    /\ decoded = NullResult
    /\ cpc = "idle"
    /\ \E c \in WellFormed \cup Damaged, key \in Keys, value \in Values :
            png = [PngIdle EXCEPT !.pc = "input", !.c = c, !.key = key, !.value = value]

\* the chunk codec's two operations
PngNext ==
    \/ WriteMetadata
    \/ \E key \in Keys : ReadMetadata(key)

\* the codec is handed its arguments, the hooks are at rest
InitCodec == CodecInit /\ SeqIdle /\ ExportIdle

\* the state after the App has mounted
Init == CodecIdle /\ SeqIdle /\ ExportIdle

SpecCodec == InitCodec /\ [][CodecNext]_vars
SpecSeq == Init /\ [][SeqNext]_vars
SpecExport == Init /\ [][ExportNext]_vars
SpecModal == ModalInit /\ [][ModalNext]_vars
SpecPng == PngInit /\ [][PngNext]_vars
SpecIds == IdsInit /\ [][IdsNext]_vars
SpecGeo == Init /\ [][GeoNext]_vars
SpecOverlap == OverlapInit /\ [][OverlapNext]_vars
SpecFrames == FramesInit /\ [][FramesNext]_vars
SpecPipelines == Init /\ [][PipelinesNext]_vars

Next ==
    \/ CodecNext \/ SeqNext \/ ExportNext \/ ModalNext
    \/ PngNext \/ IdsNext \/ GeoNext \/ OverlapNext \/ FramesNext \/ Mp4Next
Spec == Init /\ [][Next]_vars

(***************************************************************************)
(* Properties of the codec (SpecCodec)                                     *)
(***************************************************************************)
FieldsAgree(a, b) == \A key \in GeoKeys : smartRound(a[key]) = smartRound(b[key])

\* C1: decoding an encoded collection gives back the global geometry and every
\* item's geometry, field for field, numbers compared after smartRound and
\* booleans and strings exactly -- also for an item whose field equals the
\* preset while the global field differs from it.
C1_RoundTrip ==
    cpc = "decoded" =>
        /\ decoded.kind = "result"
        /\ DOMAIN decoded.geoConfig = GeoKeys
        /\ FieldsAgree(decoded.geoConfig, geoIn)
        /\ Len(decoded.sequences) = Len(seqsIn)
        /\ \A k \in 1..Len(seqsIn) :
            /\ DOMAIN decoded.sequences[k].geoConfig = GeoKeys
            /\ FieldsAgree(decoded.sequences[k].geoConfig, seqsIn[k].geoConfig)

\* an item at the preset in a field where the global config is not
C1_Witness ==
    /\ cpc = "decoded"
    /\ \E k \in 1..Len(seqsIn), key \in GeoKeys :
        /\ seqsIn[k].geoConfig[key] = SUNFLOWER_PRESET[key]
        /\ smartRound(geoIn[key]) # smartRound(SUNFLOWER_PRESET[key])
        /\ decoded.sequences[k].geoConfig[key] = SUNFLOWER_PRESET[key]

\* the inputs the decoder is said to answer with null
ListedNull(tok) ==
    \/ tok.enc # "ok"
    \/ tok.payload.pt # "obj"
    \/ tok.payload.v = 4 /\ tok.payload.s.st # "arr"
    \/ tok.payload.v \notin {2, 3, 4} /\ tok.payload.g.gt = "absent"

\* further inputs it answers with null: a list holding a null item, and a
\* version 2 or 3 payload with neither an item array nor a geometry object
AlsoNull(tok) ==
    /\ tok.enc = "ok"
    /\ tok.payload.pt = "obj"
    /\ \/ tok.payload.s.st = "arr" /\ HasNullItem(tok.payload.s)
       \/ /\ tok.payload.v \in {2, 3}
          /\ tok.payload.s.st # "arr"
          /\ tok.payload.g.gt = "absent"

Decoded == cpc \in {"decoded", "decodedPasted"}

\* C2 as stated: the decoder never throws, answers null for the listed inputs
\* and a result object for every other input.
C2_NullOnlyWhenListed ==
    Decoded => /\ decoded.kind # "throw"
               /\ (decoded.kind = "null") <=> ListedNull(token)

\* C2: the decoder never throws; it answers null for the listed inputs, for a
\* list that holds a null item and for a version 2 or 3 payload with neither an
\* item array nor a geometry object, and a result object for every other input.
C2_NullCases ==
    Decoded => /\ decoded.kind \in {"null", "result"}
               /\ (decoded.kind = "null") <=> (ListedNull(token) \/ AlsoNull(token))

C2_Witness ==
    /\ cpc = "decodedPasted"
    /\ decoded = NullResult
    /\ token.enc = "ok" /\ token.payload.pt = "obj"
    /\ token.payload.v = 4 /\ token.payload.s.st = "arr" /\ HasNullItem(token.payload.s)

(***************************************************************************)
(* Properties of the sequencer (SpecSeq)                                   *)
(***************************************************************************)
IdSeq(seqs) == [k \in 1..Len(seqs) |-> seqs[k].id \div Unit]

\* C3: while the collection is not empty, 0 <= activeIndex < sequences.length,
\* whatever was played, ticked, selected, added, duplicated, imported, deleted,
\* reordered, reset or loaded; deleting the active item keeps the index in range.
C3_ActiveIndexInRange ==
    Len(sequences) > 0 => (0 <= activeIndex /\ activeIndex < Len(sequences))

\* one card left after a delete while the clock runs over it
C3_Witness ==
    /\ IdSeq(sequences) = <<1>>
    /\ sequences[1] = DEFAULT_SEQUENCES[1]
    /\ activeIndex = 0
    /\ isPlaying
    /\ \E t \in timers : t.len = 1

\* C4 as stated: the collection never becomes empty.
C4_NeverEmpty == Len(sequences) >= 1

\* C5: reorderSequences(from, to), from # to, moves the item at from to index
\* to, keeps the order of the others and keeps the same id active; ids 1,2,3
\* with id 2 active become 2,3,1 with activeIndex 0 under reorder(0, 2).
ReorderPost(fromIndex, toIndex) ==
    /\ Len(sequences') = Len(sequences)
    /\ sequences'[toIndex + 1] = sequences[fromIndex + 1]
    /\ RemoveAt(sequences', toIndex) = RemoveAt(sequences, fromIndex)
    /\ sequences'[activeIndex' + 1].id = sequences[activeIndex + 1].id
    /\ (IdSeq(sequences) = <<1, 2, 3>> /\ activeIndex = 1 /\ fromIndex = 0 /\ toIndex = 2)
        => (IdSeq(sequences') = <<2, 3, 1>> /\ activeIndex' = 0)

C5_ReorderKeepsActiveId ==
    [][\A fromIndex, toIndex \in 0..(Len(sequences) - 1) :
          (fromIndex # toIndex /\ reorderSequences(fromIndex, toIndex))
              => ReorderPost(fromIndex, toIndex)]_vars

C5_Witness == IdSeq(sequences) = <<2, 3, 1>> /\ activeIndex = 0

(***************************************************************************)
(* Properties of the export pipelines (SpecExport, SpecPipelines and, for  *)
(* the close of the modal during an export, SpecModal)                     *)
(***************************************************************************)
Events(log, ev) == {i \in 1..Len(log) : log[i].ev = ev}
Before(log, ev, p) == Cardinality({i \in 1..(p - 1) : log[i].ev = ev})
Has(log, ev) == Events(log, ev) # {}

\* C6: frames are submitted one after another: the k-th submitted frame (from 0,
\* over the whole output) has timestamp k/30 s and duration 1/30 s, timestamps
\* strictly increase, and the render of a frame starts only after the submit of
\* the frame before it has completed.
C6_FramesInOrder ==
    \A r \in RunIds :
        LET log == runs[r].log
        IN /\ \A p \in Events(log, "add") :
                /\ log[p].a = Before(log, "add", p)
                /\ log[p].b = 1
                /\ Before(log, "render", p) = Before(log, "add", p) + 1
                /\ Before(log, "added", p) = Before(log, "add", p)
           /\ \A p, q \in Events(log, "add") : p < q => log[p].a < log[q].a
           /\ \A p \in Events(log, "render") :
                /\ Before(log, "add", p) = Before(log, "render", p)
                /\ Before(log, "added", p) = Before(log, "render", p)

C6_Witness ==
    \E r \in RunIds :
        /\ runs[r].scenes = 2
        /\ Cardinality(Events(runs[r].log, "added")) >= 3

\* whether the next step of run r arrives at the head of a scene
AboutToStartScene(r) ==
    \/ runs[r].pc = "start"
    \/ /\ runs[r].pc = "add"
       /\ runs[r].frameInScene + 1 >= runs[r].fps
       /\ runs[r].sceneIndex + 1 < runs[r].scenes

Last(log) == log[Len(log)]

\* once cancel has been called on the output, no other call follows
CancelIsLast(r) ==
    LET log == runs[r].log
    IN \A p \in Events(log, "cancel") :
            /\ \A q \in (p + 1)..Len(log) : log[q].ev = "abort"
            /\ runs[r].result # "blob"

\* a run whose abort signal is set when it is about to start a scene calls
\* output.cancel, with no further render or add
CancelsAtSceneStart(r) ==
    ( /\ AboutToStartScene(r)
      /\ runs[r].aborted
      /\ runs'[r].log # runs[r].log
      /\ runs'[r].thrown = NullV )
    => /\ runs'[r].pc = "cancel"
       /\ Last(runs'[r].log).ev = "cancel"
       /\ Events(runs'[r].log, "add") = Events(runs[r].log, "add")
       /\ Events(runs'[r].log, "render") = Events(runs[r].log, "render")

\* C7 as stated: a run of either pipeline whose abort signal is set when it is
\* about to start a scene calls output.cancel, submits no further frame, never
\* calls finalize, returns null and reports 'Export cancelled'.
C7_ReportsCancelled ==
    /\ [](\A r \in AllRuns : CancelIsLast(r))
    /\ [][\A r \in AllRuns :
            /\ CancelsAtSceneStart(r)
            /\ (runs[r].pc = "cancel" /\ runs'[r] # runs[r])
               => /\ runs'[r].pc = "done"
                  /\ runs'[r].result = "null"
                  /\ runs'[r].log = runs[r].log
                  /\ r \in RunIds => state'.error = Str("Export cancelled")]_vars

\* C7, amended: such a run calls output.cancel, submits no further frame and
\* never calls finalize.  exportVideo then returns null; it reports 'Export
\* cancelled' when output.cancel completes, and the message of what
\* output.cancel threw (or 'Unknown error during export') when it throws.
\* exportSequencesToMP4 returns nothing: it throws Error('Export cancelled')
\* when output.cancel completes, and what output.cancel threw when it throws.
C7_CancelAtSceneStart ==
    /\ [](\A r \in AllRuns : CancelIsLast(r))
    /\ [][/\ \A r \in AllRuns : CancelsAtSceneStart(r)
          /\ \A r \in RunIds :
                (runs[r].pc = "cancel" /\ runs'[r] # runs[r])
                => /\ runs'[r].pc = "done"
                   /\ runs'[r].result = "null"
                   /\ runs'[r].log = runs[r].log
                   /\ runs'[r].thrown = NullV => state'.error = Str("Export cancelled")
                   /\ runs'[r].thrown # NullV =>
                        state'.error \in {runs'[r].thrown, Str("Unknown error during export")}
          /\ (runs[Mp4Run].pc = "cancel" /\ runs'[Mp4Run] # runs[Mp4Run])
                => /\ runs'[Mp4Run].pc = "done"
                   /\ runs'[Mp4Run].result = "rejected"
                   /\ runs'[Mp4Run].log = runs[Mp4Run].log
                   /\ state' = state
                   /\ Mp4CancelDone => runs'[Mp4Run].thrown = Str("Export cancelled")
                   /\ \A e \in ThrownValues :
                        Mp4Throws(e) => runs'[Mp4Run].thrown = Str(e.message)]_vars

\* both pipelines cancelled before the first scene: nothing was submitted
C7_Witness ==
    /\ \E r \in RunIds :
        /\ runs[r].pc = "done"
        /\ Has(runs[r].log, "cancel")
        /\ ~Has(runs[r].log, "add")
        /\ runs[r].result = "null"
        /\ state.error = Str("Export cancelled")
    /\ runs[Mp4Run].pc = "done"
    /\ Has(runs[Mp4Run].log, "cancel")
    /\ ~Has(runs[Mp4Run].log, "add")
    /\ runs[Mp4Run].result = "rejected"
    /\ runs[Mp4Run].thrown = Str("Export cancelled")

\* the abort signal was set while a sub-frame was being rendered or submitted
MidSceneAbort(r) ==
    \E p \in Events(runs[r].log, "abort") : p > 1 /\ runs[r].log[p - 1].ev \in {"render", "add"}

\* the scene that was being rendered then
AbortScene(r) ==
    LET log == runs[r].log
        p == CHOOSE i \in Events(log, "abort") : TRUE
        last == CHOOSE i \in Events(log, "render") :
                    i < p /\ \A j \in Events(log, "render") : j < p => j <= i
    IN log[last].a

\* every sub-frame of the scenes up to si was submitted, and none of a later scene
StoppedAfterScene(r, si) ==
    LET log == runs[r].log
    IN /\ \A i \in Events(log, "render") : log[i].a <= si
       /\ Cardinality({i \in Events(log, "render") : log[i].a = si}) = runs[r].fps
       /\ Cardinality(Events(log, "added")) = Cardinality(Events(log, "render"))

Completed(r) == runs[r].pc = "done" /\ runs[r].thrown = NullV

\* the run has ended and no encoding primitive threw: it ran to its return, or
\* its render callback found the render container gone
PrimitivesHeld(r) ==
    /\ runs[r].pc = "done"
    /\ runs[r].thrown \in {NullV, Str("Render container not found")}

\* C8 as stated: after an abort in the middle of any scene, the last included,
\* the rest of the scene is submitted, no later scene is, the output is
\* cancelled and no video is returned.
C8_EveryScene ==
    \A r \in RunIds :
        (PrimitivesHeld(r) /\ MidSceneAbort(r))
            => /\ StoppedAfterScene(r, AbortScene(r))
               /\ Has(runs[r].log, "cancel")
               /\ runs[r].result = "null"

\* the scene of a run of the modal that was being rendered at the abort is a
\* card of the collection
AbortedInCard(r) ==
    LET scene == runs[r].sequences[AbortScene(r) + 1]
    IN "isIntro" \notin DOMAIN scene /\ "isOutro" \notin DOMAIN scene

\* what the code does after an abort in the middle of a scene: no later scene
\* is rendered.  A run that ends without a throw has submitted the rest of the
\* scene; it then cancels the output and returns no video when the scene is
\* not the last one, and finalizes and returns the video when it is.  A run
\* of the modal whose next card frame is called for while the modal is closed
\* ends in the catch block instead, with 'Render container not found': the
\* frame was not submitted, and the output neither cancelled nor finalized.
C8_AfterMidSceneAbort ==
    \A r \in RunIds :
        /\ MidSceneAbort(r) =>
                \A i \in Events(runs[r].log, "render") : runs[r].log[i].a <= AbortScene(r)
        /\ (Completed(r) /\ MidSceneAbort(r))
            => /\ StoppedAfterScene(r, AbortScene(r))
               /\ IF AbortScene(r) < runs[r].scenes - 1
                  THEN /\ Has(runs[r].log, "cancel")
                       /\ ~Has(runs[r].log, "finalize")
                       /\ runs[r].result = "null"
                  ELSE /\ ~Has(runs[r].log, "cancel")
                       /\ Has(runs[r].log, "finalized")
                       /\ runs[r].result = "blob"
        /\ (MidSceneAbort(r) /\ runs[r].thrown = Str("Render container not found"))
            => /\ AbortedInCard(r)
               /\ Last(runs[r].log).ev \in {"render", "abort"}
               /\ Cardinality(Events(runs[r].log, "added"))
                    = Cardinality(Events(runs[r].log, "render")) - 1
               /\ ~Has(runs[r].log, "cancel")
               /\ ~Has(runs[r].log, "finalize")
               /\ runs[r].result = "null"

\* the modal was closed during the first of two frames of a card: the second
\* frame was called for and not submitted
C8_ClosedInCard ==
    \E r \in RunIds :
        /\ MidSceneAbort(r) /\ AbortedInCard(r)
        /\ runs[r].pc = "done" /\ runs[r].fps = 2
        /\ runs[r].thrown = Str("Render container not found")
        /\ state.error = Str("Render container not found")
        /\ Cardinality({i \in Events(runs[r].log, "render") :
                            runs[r].log[i].a = AbortScene(r)}) = 2

\* the modal was closed during the outro, the last scene: the video is returned
C8_ClosedInOutro ==
    \E r \in RunIds :
        /\ Completed(r) /\ MidSceneAbort(r)
        /\ AbortScene(r) = runs[r].scenes - 1
        /\ runs[r].result = "blob"

Primitive == {"start", "add", "close", "finalize", "cancel"}

\* C9: the primitive is called in the order start, one add per frame, close,
\* finalize; finalize is called at most once, after every frame of every scene
\* was submitted and the source closed; a blob is returned only after finalize
\* has completed and never in a run that called cancel on the output.
C9_CallOrder ==
    \A r \in RunIds :
        LET log == runs[r].log
            calls == {i \in 1..Len(log) : log[i].ev \in Primitive}
        IN /\ \A i \in calls : log[i].ev # "start" => \E j \in Events(log, "start") : j < i
           /\ Cardinality(Events(log, "start")) <= 1
           /\ \A i \in Events(log, "add") :
                \A j \in Events(log, "close") \cup Events(log, "finalize") : i < j
           /\ \A j \in Events(log, "finalize") : j > 1 /\ log[j - 1].ev = "close"
           /\ \A j \in Events(log, "close") :
                \/ j < Len(log) /\ log[j + 1].ev = "finalize"
                \/ runs[r].thrown # NullV /\ ~Has(log, "finalize")
           /\ Cardinality(Events(log, "finalize")) <= 1
           /\ Has(log, "finalize") =>
                /\ Cardinality(Events(log, "add")) = runs[r].scenes * runs[r].fps
                /\ Cardinality(Events(log, "added")) = runs[r].scenes * runs[r].fps
           /\ runs[r].result = "blob" => (Has(log, "finalized") /\ ~Has(log, "cancel"))

C9_Witness ==
    \E r \in RunIds :
        /\ runs[r].result = "blob"
        /\ Cardinality(Events(runs[r].log, "add")) = 4

Settles(r) == runs[r].pc # "done" /\ runs'[r].pc = "done"

\* C10: exportVideo never rejects: an empty scene list, a runtime without a
\* codec and an exception of start, render, add, close, cancel or finalize make
\* it return null
\* with the failure message in state.error -- the message of a thrown Error as
\* it is; an empty list creates no encoder and no output and submits no frame.
C10_NeverRejects ==
    /\ [](\A r \in RunIds :
            /\ runs[r].result \in {"none", "null", "blob"}
            /\ runs[r].thrown # NullV => (runs[r].pc = "done" /\ runs[r].result = "null")
            /\ (runs[r].pc = "done" /\ runs[r].scenes = 0) =>
                    (runs[r].result = "null" /\ runs[r].log = <<>>))
    /\ [][\A r \in RunIds :
            /\ \A e \in ThrownValues :
                (Throws(r, e) \/ CloseThrows(r, e)) =>
                    /\ Settles(r) /\ runs'[r].result = "null"
                    /\ state'.error = Str(IF e.isError THEN e.message
                                          ELSE "Unknown error during export")
            /\ ProbeDone(r, "none") =>
                    /\ Settles(r) /\ runs'[r].result = "null"
                    /\ state'.error = Str("No supported video codec found. Please use a modern browser with WebCodecs support.")
            /\ \A timing \in ExportTimings :
                exportVideo(r, <<>>, timing) =>
                    /\ Settles(r) /\ runs'[r].result = "null"
                    /\ runs'[r].log = <<>>
                    /\ state'.error = Str("No sequences to export")]_vars

\* add threw after a frame had been submitted
C10_Witness ==
    \E r \in RunIds :
        /\ runs[r].pc = "done"
        /\ runs[r].thrown = Str("encoder failure")
        /\ state.error = Str("encoder failure")
        /\ runs[r].result = "null"
        /\ Has(runs[r].log, "added")

(***************************************************************************)
(* Properties of an export started from the modal (SpecFrames, SpecModal)  *)
(***************************************************************************)
\* n / d rounded to the nearest integer, halves upwards
Rounded(n, d) == (2 * n + d) \div (2 * d)

\* the sub-frames submitted for scene si of a run
SubFrames(r, si) ==
    Cardinality({i \in Events(runs[r].log, "render") : runs[r].log[i].a = si})

\* the timings up to 30 s at which timingMs * 30 / 1000 ends in .5 and the
\* product (timingMs / 1000) * 30 of the doubles lies below it
LowTies == {2050, 8450, 16150, 16650}

\* Math.round((timingMs / 1000) * 30) in whole numbers
Frames(timing) == Rounded(timing * 30, 1000) - (IF timing \in LowTies THEN 1 ELSE 0)

\* every multiple of 50 ms up to 30 s: the timings of the slider and the ties
FramesUpTo30s == \A k \in 0..600 : FramesPerScene(50 * k) = Frames(50 * k)

\* the scene list the modal hands over: S = 1 + loopCount * n + 1 scenes, the
\* intro, the n items in collection order loopCount times, the outro
ModalScenes ==
    [][\A r \in RunIds, loopCount \in 1..MaxLoops, videoName \in VideoNames(sequences) :
            handleStartExport(r, loopCount, videoName, TRUE) =>
                LET n == Len(sequences)
                    list == runs'[r].sequences
                    S == Len(list)
                IN /\ S = 1 + loopCount * n + 1
                   /\ runs'[r].scenes = S
                   /\ "isIntro" \in DOMAIN list[1] /\ list[1].id = (-1) * Unit
                   /\ "isOutro" \in DOMAIN list[S] /\ list[S].id = (-2) * Unit
                   /\ \A k \in 0..(loopCount * n - 1) :
                        list[k + 2] = sequences[(k % n) + 1]]_vars

\* the examples: 60 sub-frames at 2000 ms; 8 scenes of 45 sub-frames for two
\* items, three loops and 1500 ms
FrameExamples ==
    /\ FramesPerScene(2000) = 60
    /\ Len(ExpandedSequences(SceneList(2), 3, Name("Card"))) = 8
    /\ Len(ExpandedSequences(SceneList(2), 3, Name("Card"))) * FramesPerScene(1500) = 360

\* C11 as stated: an export that returns a video has submitted S * round(timingMs
\* * 30 / 1000) frames for its S scenes, the same number for every scene; the
\* modal hands over S = 1 + loopCount * n + 1 scenes: the intro, the n items in
\* collection order loopCount times, the outro.  timingMs = 2000 gives 60
\* sub-frames, and n = 2, loopCount = 3, timingMs = 1500 gives 8 * 45 = 360.
C11_FrameCount ==
    /\ [](\A r \in RunIds :
            runs[r].result = "blob" =>
                LET S == Len(runs[r].sequences)
                    F == Rounded(timingMs * 30, 1000)
                IN /\ Cardinality(Events(runs[r].log, "add")) = S * F
                   /\ Cardinality(Events(runs[r].log, "added")) = S * F
                   /\ \A si \in 0..(S - 1) : SubFrames(r, si) = F)
    /\ ModalScenes
    /\ []FrameExamples

\* C11, amended: the export submits S * Math.round((timingMs / 1000) * 30)
\* frames, the same number for every scene, where the product is the one of
\* the doubles: round(timingMs * 30 / 1000) at every multiple of 50 ms up to
\* 30 s but 2050, 8450, 16150 and 16650 ms, where it is one less (61 sub-frames
\* at 2050 ms).  The scene list and the examples are as stated.
C11_FrameCountOfDoubles ==
    /\ [](\A r \in RunIds :
            runs[r].result = "blob" =>
                LET S == Len(runs[r].sequences)
                    F == Frames(timingMs)
                IN /\ Cardinality(Events(runs[r].log, "add")) = S * F
                   /\ Cardinality(Events(runs[r].log, "added")) = S * F
                   /\ \A si \in 0..(S - 1) : SubFrames(r, si) = F)
    /\ ModalScenes
    /\ [](FrameExamples /\ FramesUpTo30s /\ Frames(2050) = 61)

\* two items, three loops at 1500 ms: 8 scenes of 45 sub-frames, 360 frames
\* in the video
C11_Witness ==
    \E r \in RunIds :
        /\ runs[r].result = "blob"
        /\ Len(sequences) = 2 /\ timingMs = 1500
        /\ runs[r].scenes = 8
        /\ runs[r].fps = 45
        /\ Cardinality(Events(runs[r].log, "add")) = 360

\* the durations of the submitted frames of a log, in units of 1/30 s
RECURSIVE SumDurations(_)
SumDurations(log) ==
    IF log = <<>> THEN 0
    ELSE (IF Head(log).ev = "add" THEN Head(log).b ELSE 0) + SumDurations(Tail(log))

\* the video of run r lasts as long as the modal announced: SumDurations / 30
\* seconds equal totalDuration, for the loopCount the run was started with
AsAnnounced(r) ==
    \E loopCount \in 1..MaxLoops :
        /\ runs[r].scenes = totalFrames(sequences, loopCount)
        /\ SumDurations(runs[r].log) * totalDuration(sequences, loopCount, timingMs).d
                = 30 * totalDuration(sequences, loopCount, timingMs).n

\* C12 as stated: for every timingMs and loopCount the frames of the exported
\* video add up to (1 + loopCount * sceneCount + 1) * timingMs, the duration the
\* modal displays.
C12_DurationForEveryTiming ==
    \A r \in RunIds : runs[r].result = "blob" => AsAnnounced(r)

\* C12, amended: the frames of the exported video add up to the displayed
\* duration exactly when timingMs is a multiple of 100 (as every value of the
\* timing slider is); for two items, three loops and 1500 ms the modal shows 12 s.
C12_DurationForSliderTimings ==
    /\ \A r \in RunIds :
            runs[r].result = "blob" => (AsAnnounced(r) <=> timingMs % 100 = 0)
    /\ totalDuration(SceneList(2), 3, 1500) = [n |-> 12000, d |-> 1000]

\* one item, one loop at 200 ms: 3 scenes, 18 frames, 0.6 s
C12_Witness ==
    \E r \in RunIds :
        /\ runs[r].result = "blob"
        /\ timingMs = 200
        /\ runs[r].scenes = 3
        /\ SumDurations(runs[r].log) = 18
        /\ AsAnnounced(r)

(***************************************************************************)
(* Progress reports of a run (SpecExport)                                  *)
(***************************************************************************)
\* the k-th progress report of a log is at position ProgressAt(log, k)
ProgressAt(log, k) ==
    CHOOSE p \in Events(log, "progress") : Before(log, "progress", p) = k - 1

\* C13: the progress values one run reports never decrease and stay within
\* 0..100: 0 first, then 5, then 10 once the output has started, then
\* 10 + 85 * globalFrameIndex / totalFrames (from 10, below 95) before each
\* rendered frame, 95 before close and finalize, 100 only after finalize.
C13_ProgressMonotone ==
    \A r \in RunIds :
        LET log == runs[r].log
            P == Events(log, "progress")
            total == runs[r].scenes * runs[r].fps
        IN /\ \A p \in P : 0 <= log[p].a /\ log[p].a <= 100 * log[p].b /\ log[p].b > 0
           /\ \A p, q \in P : p < q => log[p].a * log[q].b <= log[q].a * log[p].b
           /\ \A p \in P :
                LET k == Before(log, "progress", p) + 1
                    val == <<log[p].a, log[p].b>>
                IN CASE k = 1 -> val = <<0, 1>>
                     [] k = 2 -> val = <<5, 1>>
                     [] k = 3 -> val = <<10, 1>> /\ Has(SubSeq(log, 1, p), "start")
                     [] OTHER ->
                          \/ /\ p < Len(log) /\ log[p + 1].ev = "render"
                             /\ val = <<10 * total + 85 * Before(log, "add", p), total>>
                             /\ 10 * log[p].b <= log[p].a
                             /\ log[p].a < 95 * log[p].b
                          \/ /\ val = <<95, 1>>
                             /\ p < Len(log) /\ log[p + 1].ev = "close"
                             /\ ~Has(SubSeq(log, 1, p), "finalized")
                          \/ /\ val = <<100, 1>>
                             /\ log[p - 1].ev = "finalized"
                             /\ k = Cardinality(P)

\* a run of two scenes with two sub-frames each has reported
\* 0, 5, 10, 10, 31.25, 52.5, 73.75, 95 and 100
C13_Witness ==
    \E r \in RunIds :
        LET log == runs[r].log
        IN /\ runs[r].result = "blob"
           /\ Cardinality(Events(log, "progress")) = 9
           /\ log[ProgressAt(log, 5)].a = 125 /\ log[ProgressAt(log, 5)].b = 4
           /\ log[ProgressAt(log, 7)].a = 295 /\ log[ProgressAt(log, 7)].b = 4
           /\ log[ProgressAt(log, 9)].a = 100

(***************************************************************************)
(* Properties of the PNG metadata chunk codec (SpecPng)                    *)
(***************************************************************************)
SingleByte(str) == \A i \in 1..Len(str) : str[i] < 256
NoZero(str) == \A i \in 1..Len(str) : str[i] # 0

\* C14: for a well-formed container (the minimal one: signature and 25-byte
\* header chunk, and the ones with further chunks), a key of single-byte
\* characters without 0x00 and a value of single-byte characters, reading the
\* key from the written container gives the value back; reading a key of which
\* the container holds no textual chunk gives null and does not throw.
C14_WriteThenRead ==
    /\ (/\ png.pc = "readBack"
        /\ png.c \in WellFormed
        /\ png.readKey = png.key
        /\ SingleByte(png.key) /\ NoZero(png.key) /\ SingleByte(png.value))
            => png.res = PngValue("str", png.value)
    /\ (/\ png.pc = "read"
        /\ png.c \in WellFormed
        /\ ~(png.c = Tagged /\ png.readKey = <<75>>))
            => png.res = PngNull

\* "K" with a value that holds 0x00 and 0xFF, written into the minimal container
C14_Witness ==
    /\ png.pc = "readBack"
    /\ png.c = Minimal
    /\ png.key = <<75>> /\ png.readKey = <<75>>
    /\ png.value = <<0, 255>>
    /\ png.res = PngValue("str", <<0, 255>>)

\* C15 as stated: for every malformed or truncated byte sequence
\* readPngMetadata does not throw, and returns null (where the bytes that are
\* left do not hold the body of a textual chunk with the key: only "K" occurs).
C15_NeverThrows ==
    (png.pc = "read" /\ png.c \in Damaged) =>
        /\ png.res # RangeError
        /\ png.readKey # <<75>> => png.res = PngNull

\* the chunks of a well-formed buffer from offset on, each with its 12 bytes
\* of length, type and checksum
RECURSIVE ChunksFrom(_, _)
ChunksFrom(data, offset) ==
    IF offset + 12 > Len(data) THEN <<>>
    ELSE LET n == (data[offset + 3] * 256) + data[offset + 4]
         IN <<SubSeq(data, offset + 1, offset + 12 + n)>> \o ChunksFrom(data, offset + 12 + n)

\* C16: for a container c of 33 bytes or more, writePngMetadata(c, key, value)
\* gives the first 33 bytes of c, one chunk (big-endian length len(key) + 1 +
\* len(value), tag tEXt, body key + 0x00 + value, CRC-32 of tag and body) and
\* then the bytes of c from offset 33 on; the chunks of c after the header
\* chunk follow the inserted chunk unchanged, and the output is len(key) +
\* len(value) + 13 bytes longer than c.
C16_WriteFrame ==
    /\ (png.pc = "written" /\ Len(png.c) >= 33) =>
            LET c == png.c
                o == png.out.v
                n == Len(png.key) + 1 + Len(png.value)
            IN /\ png.out.t = "blob"
               /\ Len(o) = Len(c) + Len(png.key) + Len(png.value) + 13
               /\ SubSeq(o, 1, 33) = SubSeq(c, 1, 33)
               /\ SubSeq(o, 34, 37) = <<0, 0, n \div 256, n % 256>>
               /\ SubSeq(o, 38, 41) = <<116, 69, 88, 116>>
               /\ (SingleByte(png.key) /\ SingleByte(png.value)) =>
                        SubSeq(o, 42, 41 + n) = png.key \o <<0>> \o png.value
               /\ SubSeq(o, 42 + n, 45 + n) = BigEndian(crc32(SubSeq(o, 38, 41 + n)))
               /\ SubSeq(o, 46 + n, Len(o)) = SubSeq(c, 34, Len(c))
               /\ c \in WellFormed =>
                        ChunksFrom(o, 8) = <<ChunksFrom(c, 8)[1], SubSeq(o, 34, 45 + n)>>
                                           \o Tail(ChunksFrom(c, 8))
    /\ BigEndian(crc32(<<73, 69, 78, 68>>)) = <<174, 66, 96, 130>>

\* "Ke" = "hi" written into a container with a textual and a terminal chunk
C16_Witness ==
    /\ png.pc = "written"
    /\ png.c = Tagged
    /\ png.key = <<75, 101>> /\ png.value = <<104, 105>>
    /\ png.out.t = "blob"
    /\ Len(png.out.v) = 77
    /\ Len(ChunksFrom(png.out.v, 8)) = 4

(***************************************************************************)
(* Properties of the decoded configurations (SpecCodec)                    *)
(***************************************************************************)
\* every field of GeoConfig is there and holds a value
FullyPopulated(geo) ==
    \A key \in GeoKeys : key \in DOMAIN geo /\ geo[key] \notin {NullV, Undef}

\* C17 as stated: every non-null result of decompressConfig is fully populated,
\* the returned geoConfig and the geoConfig of every returned item, for tokens
\* of every version, with an empty item list, with diffs that omit fields or
\* carry null.
C17_FullyPopulated ==
    (Decoded /\ decoded # NullResult) =>
        /\ FullyPopulated(decoded.geoConfig)
        /\ \A k \in 1..Len(decoded.sequences) : FullyPopulated(decoded.sequences[k].geoConfig)

\* the aliases a diff holds
Aliases(diff) == IF diff.gt = "obj" THEN DOMAIN diff.o ELSE {}

\* diff holds the alias of a field exactly when the rounded values of the field
\* in target and baseline differ, and holds nothing else
ExactDiff(diff, target, baseline) ==
    /\ \A key \in GeoKeys :
            GEO_KEY_MAP[key] \in Aliases(diff)
                <=> smartRound(target[key]) # smartRound(baseline[key])
    /\ Aliases(diff) \subseteq {GEO_KEY_MAP[key] : key \in GeoKeys}

\* C18: the global diff of a token holds the alias of a field exactly when the
\* rounded value of the field in the active configuration differs from that of
\* the preset, the diff of an item exactly when it differs from that of the
\* active configuration; an item equal to the active configuration has no g,
\* and the preset as active configuration gives an empty global diff.
C18_DiffMinimal ==
    cpc \in {"encoded", "decoded"} =>
        LET p == token.payload
        IN /\ p.G.gt = "obj"
           /\ ExactDiff(p.G, geoIn, SUNFLOWER_PRESET)
           /\ geoIn = SUNFLOWER_PRESET => p.G.o = EmptyObj
           /\ Len(p.s.a) = Len(seqsIn)
           /\ \A k \in 1..Len(seqsIn) :
                /\ ExactDiff(p.s.a[k].g, seqsIn[k].geoConfig, geoIn)
                /\ seqsIn[k].geoConfig = geoIn => p.s.a[k].g = GeoAbsent
                /\ p.s.a[k].g.gt = "obj" => p.s.a[k].g.o # EmptyObj

\* the active scale rounds to the preset's and is left out of the global diff;
\* one item equals the active configuration, the other is off it in one field
C18_Witness ==
    /\ cpc = "encoded"
    /\ geoIn.frameScale = Num(100004)
    /\ token.payload.G.o = EmptyObj
    /\ Len(seqsIn) = 2
    /\ seqsIn[1].geoConfig = geoIn /\ token.payload.s.a[1].g = GeoAbsent
    /\ Aliases(token.payload.s.a[2].g) = {"c"}

\* C19: the data of an item comes back from compressConfig and decompressConfig
\* as it was (same length, same values, same order) exactly when every value is
\* in 0..9; data that holds a value of 10 or more comes back different.
C19_DataRoundTrip ==
    cpc = "decoded" =>
        /\ Len(decoded.sequences) = Len(seqsIn)
        /\ \A k \in 1..Len(seqsIn) :
            LET data == seqsIn[k].data
                back == decoded.sequences[k].data
            IN /\ (back = data) <=> (\A i \in 1..Len(data) : data[i] \in 0..9)
               /\ (\E i \in 1..Len(data) : data[i] >= 10) => back # data

\* 0, 12, 0, 3, ..., 10 comes back two values longer; digits come back as they were
C19_Witness ==
    /\ cpc = "decoded"
    /\ Len(seqsIn) = 2
    /\ seqsIn[1].data = WithTwelve
    /\ decoded.sequences[1].data = <<0, 1, 2, 0, 3, 0, 0, 0, 0, 0, 1, 0>>
    /\ seqsIn[2].data = SomeDigits
    /\ decoded.sequences[2].data = SomeDigits

\* the short keys of a geometry object that are not in the alias table
UnknownKeys(diff) == Aliases(diff) \ {GEO_KEY_MAP[key] : key \in GeoKeys}

\* geo is baseline with the listed fields of diff written over it, nothing added
Applied(geo, diff, baseline) ==
    /\ DOMAIN geo = DOMAIN baseline
    /\ \A key \in DOMAIN baseline :
        geo[key] = IF key \in GeoKeys /\ GEO_KEY_MAP[key] \in Aliases(diff)
                   THEN diff.o[GEO_KEY_MAP[key]] ELSE baseline[key]

\* geo holds every unknown key of minGeo under its own name with its value
Verbatim(geo, minGeo) ==
    \A sk \in UnknownKeys(minGeo) : sk \in DOMAIN geo /\ geo[sk] = minGeo.o[sk]

\* C20 as stated: a short key that is not in the alias table is ignored by the
\* version-4 decoder (the decoded geoConfig is as if the key were absent, no
\* field is added), and kept under its own name with its value by the decoders
\* of versions 1, 2 and 3.
C20_UnknownKeys ==
    (cpc = "decodedPasted" /\ decoded # NullResult) =>
        LET p == token.payload
        IN IF p.v = 4
           THEN /\ Applied(decoded.geoConfig, p.G, SUNFLOWER_PRESET)
                /\ \A k \in 1..Len(decoded.sequences) :
                        Applied(decoded.sequences[k].geoConfig, p.s.a[k].g, decoded.geoConfig)
           ELSE IF p.v \in {2, 3} /\ p.s.st = "arr"
           THEN \A k \in 1..Len(decoded.sequences) :
                        Verbatim(decoded.sequences[k].geoConfig, p.s.a[k].g)
           ELSE /\ Verbatim(decoded.geoConfig, p.g)
                /\ \A k \in 1..Len(decoded.sequences) :
                        Verbatim(decoded.sequences[k].geoConfig, p.g)

(***************************************************************************)
(* Properties of the playback clock (SpecSeq)                              *)
(***************************************************************************)
\* the index after n consecutive ticks of a timer installed over len items
RECURSIVE Ticks(_, _, _)
Ticks(idx, len, n) == IF n = 0 THEN idx ELSE Ticks(NextIndex(idx, len), len, n - 1)

\* C21: while the clock runs over N >= 1 items, a timer tick sets activeIndex
\* to (activeIndex + 1) mod N and changes nothing else, the timer included, so
\* N consecutive ticks bring activeIndex back to where it was.
C21_TickAdvances ==
    /\ [](\A t \in timers :
            /\ isPlaying
            /\ t.len = Len(sequences) /\ t.len >= 1
            /\ Ticks(activeIndex, t.len, Len(sequences)) = activeIndex)
    /\ [][Tick => /\ activeIndex' = (activeIndex + 1) % Len(sequences)
                  /\ UNCHANGED <<sequences, isPlaying, timingMs, timers, timerRef, crashed>>]_vars

\* three items, the clock running at 200 ms, the last item active
C21_Witness ==
    /\ Len(sequences) = 3 /\ isPlaying /\ activeIndex = 2
    /\ timers = {[id |-> timerRef, period |-> 200, len |-> 3]}
    /\ Ticks(activeIndex, 3, 1) = 0

\* C22: selectSequence(i) leaves isPlaying false and activeIndex = i with no
\* timer live; while isPlaying is false no timer is live, so no tick happens,
\* and isPlaying turns true only in a togglePlay or setPlaying(true) step.
C22_SelectStops ==
    /\ [](~isPlaying => timers = {})
    /\ [][\A index \in 0..(Len(sequences) - 1) :
              selectSequence(index)
                  => ~isPlaying' /\ activeIndex' = index /\ timers' = {}]_vars
    /\ [][Tick => isPlaying]_vars
    /\ [][~isPlaying /\ isPlaying' => togglePlay \/ setPlaying(TRUE)]_vars

\* the third of three items selected, the clock stopped, after a timer had
\* been installed
C22_Witness ==
    /\ Len(sequences) = 3 /\ activeIndex = 2
    /\ ~isPlaying /\ timers = {} /\ timerRef # 0

\* the timers live in a state are one timer, named by timerRef, of the
\* current period
OneTimer(live, ref, period) ==
    \E t \in live : live = {t} /\ t.id = ref /\ t.period = period

\* while the hook is mounted: one live timer of period timingMs when isPlaying,
\* none otherwise
ClockInvariant ==
    ~crashed => IF isPlaying THEN OneTimer(timers, timerRef, timingMs) ELSE timers = {}

\* what setTimingMs(v) does to a running clock according to C23: the clock
\* keeps running, the live timer is gone and another one of period v is live
Reinstalled(v) == isPlaying' /\ OneTimer(timers', timerRef', v) /\ timers' \cap timers = {}

\* the states in which setTimingMs may be called on a running clock
Running == isPlaying /\ ~crashed

\* C23 as stated: in every state one live timer of period timingMs when
\* isPlaying and none otherwise, and setTimingMs(v), for every v, while running
\* cancels the live timer and installs another of period v.
C23_ReinstallsForEveryValue ==
    /\ []ClockInvariant
    /\ [](Running => \A v \in TimingChoices : ENABLED (setTimingMs(v) /\ Reinstalled(v)))

\* C23, amended: the same for every v other than the current timingMs;
\* setTimingMs(timingMs) is no state change and leaves the live timer in place.
C23_ReinstallsForNewValue ==
    /\ []ClockInvariant
    /\ [](Running => \A v \in TimingChoices \ {timingMs} :
                         ENABLED (setTimingMs(v) /\ Reinstalled(v)))
    /\ [](Running => ~ENABLED (setTimingMs(timingMs) /\ timers' # timers))
    /\ [][\A v \in TimingChoices : isPlaying /\ setTimingMs(v) => Reinstalled(v)]_vars

\* the default collection playing at 200 ms on a second timer
C23_Witness ==
    /\ sequences = DEFAULT_SEQUENCES /\ isPlaying /\ timingMs = 200
    /\ timers = {[id |-> 2, period |-> 200, len |-> 2]} /\ timerRef = 2

(***************************************************************************)
(* Properties of the collection (SpecSeq)                                  *)
(***************************************************************************)
\* the ids a delete may be called with: those of the collection and one of none
AnyIds == Ids(sequences) \cup {(MaxId + 4) * Unit}

\* C24: over a collection of exactly one item deleteSequence(id), for the id
\* of the item and for an id of no item, changes neither sequences nor
\* activeIndex, isPlaying or timingMs (nor the timer).
C24_DeleteLastIsNoOp ==
    /\ [](Len(sequences) = 1 /\ ~crashed =>
            \A id \in AnyIds :
                /\ ENABLED deleteSequence(id)
                /\ ~ENABLED (deleteSequence(id) /\ vars' # vars))
    /\ [][\A id \in AnyIds :
              Len(sequences) = 1 /\ deleteSequence(id)
                  => UNCHANGED <<sequences, activeIndex, isPlaying, timingMs>>]_vars

\* one item, playing at 200 ms, and a delete of it that may be called
C24_Witness ==
    /\ Len(sequences) = 1 /\ isPlaying /\ timingMs = 200 /\ activeIndex = 0
    /\ ENABLED deleteSequence(sequences[1].id)

\* no two items of the collection share an id
Distinct(seqs) == \A j, k \in 1..Len(seqs) : j # k => seqs[j].id # seqs[k].id

\* a step of add, duplicate or import that created an item in the collection
\* old: add and duplicate work on the current collection, the onload of an
\* import on the collection of the render in which the file was chosen
Creates(old) ==
    /\ \/ old = sequences /\ addSequence
       \/ old = sequences /\ \E id \in Ids(sequences) : duplicateSequence(id)
       \/ \E rd \in readers : rd.seqs = old /\ onload(rd) /\ sequences' # sequences
    /\ Len(sequences') = Len(old) + 1

\* the collections an item may join in a step: the current one and those the
\* pending imports were started over
Joined == {sequences} \cup {rd.seqs : rd \in readers}

\* C25: an item created by add, duplicate or import gets an id above every
\* id of the collection it joins, and from a collection with pairwise distinct
\* ids every sequence of add, duplicate, import, delete and reorder calls
\* leaves the ids pairwise distinct.
C25_FreshIds ==
    /\ [](Distinct(sequences))
    /\ [][\A old \in Joined :
              Creates(old) => \A k \in 1..Len(old) :
                                 sequences'[Len(sequences')].id > old[k].id]_vars

\* the same for collections whose ids are all below 2^53
C25_FreshSafeIds ==
    /\ []((\A id \in Ids(sequences) : id < TwoTo53) => Distinct(sequences))
    /\ [][\A old \in Joined :
              Creates(old) /\ (\A id \in Ids(old) : id < TwoTo53)
              => /\ sequences'[Len(sequences')].id = NewId(old)
                 /\ \A k \in 1..Len(old) :
                        sequences'[Len(sequences')].id = old[k].id + Unit
                        \/ sequences'[Len(sequences')].id > old[k].id + Unit]_vars

\* C30: in a collection of at least two items with distinct ids,
\* deleteSequence(id) of an item that is not the active one keeps the active
\* item active; of the active item, it makes the next item active, or the
\* previous one when the active item was the last; isPlaying and timingMs
\* stay as they are.
C30_DeleteKeepsActiveItem ==
    [][\A id \in Ids(sequences) :
          Len(sequences) >= 2 /\ Distinct(sequences) /\ deleteSequence(id)
              => /\ UNCHANGED <<isPlaying, timingMs>>
                 /\ Len(sequences') = Len(sequences) - 1
                 /\ sequences'[activeIndex' + 1] =
                        IF sequences[activeIndex + 1].id # id THEN sequences[activeIndex + 1]
                        ELSE IF activeIndex = Len(sequences) - 1 THEN sequences[activeIndex]
                        ELSE sequences[activeIndex + 2]]_vars

\* the second of three loaded items deleted while the third was active and
\* the clock ran
C30_Witness ==
    /\ IdSeq(sequences) = <<1, 3>> /\ activeIndex = 1
    /\ isPlaying /\ timingMs = 200 /\ timerRef > 1

(***************************************************************************)
(* Properties of the items' data (SpecGeo)                                 *)
(***************************************************************************)
\* every item's data is as long as its configuration says
Consistent(seqs) == \A k \in 1..Len(seqs) : Len(seqs[k].data) = LengthOf(seqs[k].geoConfig)

\* resizeSequence(id, n) on the collection: the items with the id get the
\* first n values of their data, padded with zeros to n, the others stay
Resized(seqs, id, n) ==
    LET r == resizeSequence(seqs, id, n)
    IN /\ Len(r) = Len(seqs)
       /\ \A k \in 1..Len(seqs) :
            IF seqs[k].id # id THEN r[k] = seqs[k]
            ELSE /\ Len(r[k].data) = n
                 /\ \A i \in 1..n : r[k].data[i] = IF i <= Len(seqs[k].data)
                                                     THEN seqs[k].data[i] ELSE 0
                 /\ [r[k] EXCEPT !.data = seqs[k].data] = seqs[k]

ResizeLengths == {0, 1, 9, 10, 11, 44}

\* C26: in every state every item's data is as long as its sequenceLength,
\* and resizeSequence(id, n) makes the data of item id exactly n long, keeping
\* the first n values or padding with zeros, and leaves the other items alone.
C26_DataLength ==
    ~crashed =>
        /\ Consistent(sequences)
        /\ \A id \in Ids(sequences), n \in ResizeLengths : Resized(sequences, id, n)

\* a step of the tuner, a preset, setSequenceLength, the editor, a name
\* field, add or duplicate
Edits ==
    \/ \E upd \in TunerUpdates : updateConfig(upd)
    \/ \E preset \in {SUNFLOWER_PRESET, LotusConfig} : applyPreset(preset)
    \/ \E length \in Lengths : setSequenceLength(length)
    \/ \E delta \in {-1, 1} : handleValueChange(0, delta)
    \/ \E valStr \in FieldTexts : handleInputChange(valStr, 0)
    \/ \E key \in EditorKeys : handleKeyDown(key, 0)
    \/ handleReset
    \/ \E id \in Ids(sequences) : updateSequence(id, [name |-> TypedName])
    \/ addSequence
    \/ \E id \in Ids(sequences) : duplicateSequence(id)

\* the part of C26 that holds: the tuner, the presets, setSequenceLength, the
\* editor, the name fields, add and duplicate keep every item's data as long as its sequenceLength, and
\* resizeSequence does what C26 says.
C26_EditsKeepLength ==
    /\ [](~crashed => \A id \in Ids(sequences), n \in ResizeLengths :
                          Resized(sequences, id, n))
    /\ [][Consistent(sequences) /\ Edits => Consistent(sequences')]_vars

(***************************************************************************)
(* Properties of the import of a card (SpecSeq)                            *)
(***************************************************************************)
\* the items a card's token decodes to; the tokens of cards carry ids, so the
\* decoding draws no random number
CardItems(tok) ==
    LET dec == decompressConfig(tok, CHOOSE rnd \in RandomChoices(tok) : TRUE)
    IN IF dec.kind = "result" THEN dec.sequences ELSE <<>>

\* the collection after the import: the old items, then one item per decoded
\* item, equal to it but for its id, the new ids above the old ones and
\* pairwise distinct
ImportedAll(old, new, items) ==
    /\ Len(new) = Len(old) + Len(items)
    /\ SubSeq(new, 1, Len(old)) = old
    /\ \A j \in 1..Len(items) :
          /\ [new[Len(old) + j] EXCEPT !.id = items[j].id] = items[j]
          /\ \A k \in 1..Len(old) : new[Len(old) + j].id > old[k].id
          /\ \A i \in 1..(j - 1) : new[Len(old) + i].id # new[Len(old) + j].id

\* C27: when the token of an imported card decodes to k >= 1 items, the
\* import leaves the collection with k more items, one per decoded item, each
\* with its own fresh id.
C27_ImportsEveryItem ==
    [][\A rd \in readers :
          ~crashed /\ onload(rd) /\ rd.meta.t = "token" /\ Len(CardItems(rd.meta.v)) >= 1
              => ImportedAll(sequences, sequences', CardItems(rd.meta.v))]_vars

\* what the import does: it appends the last decoded item alone, with the id
\* NewId of the collection the handler was created over
C27_ImportsLastItem ==
    [][\A rd \in readers :
          ~crashed /\ onload(rd) /\ rd.meta.t = "token" /\ Len(CardItems(rd.meta.v)) >= 1
              => ImportedAll(rd.seqs, sequences',
                             <<CardItems(rd.meta.v)[Len(CardItems(rd.meta.v))]>>)]_vars

(***************************************************************************)
(* Properties of the export state (SpecExport, SpecOverlap)                *)
(***************************************************************************)
\* C28: when a call of exportVideo settles, with whatever outcome,
\* state.isExporting is false.
C28_SettledNotExporting ==
    [][\A r \in RunIds : Settles(r) => ~state'.isExporting]_vars

\* the same for every outcome but the cancellation
C28_SettledUnlessCancelled ==
    [][\A r \in RunIds : Settles(r) /\ runs[r].pc # "cancel" => ~state'.isExporting]_vars

\* call A has been cancelled and call B has been made after it
Superseded == runs["A"].aborted /\ runs["B"].pc # "idle"

\* a run is between the call of renderFrame and the completion of add
InFrame(r) == runs[r].pc \in {"render", "add"}

\* C29: once export A has been cancelled and export B has started, no step of
\* A writes progress, message or error into the export state, and A and B
\* are never both inside a frame (rendering or submitting it).
C29_CancelledRunIsSilent ==
    /\ [][Superseded /\ runs'["A"] # runs["A"] => state' = state]_vars
    /\ [](Superseded => ~(InFrame("A") /\ InFrame("B")))

====
